---------------------------- MODULE Spec2Model ----------------------------
(***************************************************************************)
(* Review aspect aggregation (src/utils.py).                               *)
(*                                                                         *)
(* A review table is a pandas DataFrame: a set of column names and a       *)
(* sequence of rows.  analyze_aspects turns it into the long-form          *)
(* statistics table and the aspect x category pivot; get_top_aspects       *)
(* ranks the aspects of a statistics table.                                *)
(*                                                                         *)
(* Percentages are held as exact fractions in lowest terms (num/den), so   *)
(* that equality of two percentages is equality of the records.  Python    *)
(* computes them in IEEE double precision; the rounding of the last bit    *)
(* is not modelled.                                                        *)
(*                                                                         *)
(* Category values are strings: a missing (NaN) category cell is outside   *)
(* the ReviewRecord data model and is not enumerated.                      *)
(***************************************************************************)
EXTENDS Integers, Sequences, FiniteSets

VARIABLES df, pc, outcome, analysis_df, pivot_df, top_n, top_aspects,
          sort_stable, http_status, low_aspects, distribution, cat_df,
          cat_pc, cat_outcome, cat_analysis, freq_stable, matrix,
          matrix_outcome, cat_status, raw_aspects, parse_pc, parse_raised,
          aspects_parsed, parse_status, calls, sort_kind, csv_aspects,
          csv_pc, csv_result, now, stepped_back, uploads, upload_writes,
          category_writes, analyses, accepted, requests, resp, catalog_ok,
          clock, session, auth_op, auth_returned, last_auth, logout_since,
          any_raised, max_pages, server, page, more_pages, page_pc,
          all_results, requested, responses, pages_output

(* The state of the review aggregator. *)
reviewVars ==
    <<df, pc, outcome, analysis_df, pivot_df, top_n, top_aspects,
      sort_stable, http_status, low_aspects, distribution>>

(* The state of the category aggregator. *)
categoryVars ==
    <<cat_df, cat_pc, cat_outcome, cat_analysis, freq_stable, matrix,
      matrix_outcome, cat_status>>

(* The state of the normalisation of a serialized aspects column. *)
parseVars ==
    <<raw_aspects, parse_pc, parse_raised, aspects_parsed, parse_status>>

(* The calls made to the aggregators by one process, and its sort build. *)
callVars ==
    <<calls, sort_kind>>

(* The aspects column of a review file and what process_csv made of it. *)
csvVars ==
    <<csv_aspects, csv_pc, csv_result>>

(* The state of the API server: its clock, its directories, its requests. *)
apiVars ==
    <<now, stepped_back, uploads, upload_writes, category_writes, analyses,
      accepted, requests, resp, catalog_ok>>

(* The Streamlit session of auth.py, its clock and the calls made on it. *)
authVars ==
    <<clock, session, auth_op, auth_returned, last_auth, logout_since,
      any_raised>>

(* One call of get_review_categories_paginated and the server it talks to. *)
pagesVars ==
    <<max_pages, server, page, more_pages, page_pc, all_results, requested,
      responses, pages_output>>

notReviewVars ==
    <<categoryVars, parseVars, callVars, csvVars, apiVars, authVars,
      pagesVars>>

notCategoryVars ==
    <<reviewVars, parseVars, callVars, csvVars, apiVars, authVars,
      pagesVars>>

notParseVars ==
    <<reviewVars, categoryVars, callVars, csvVars, apiVars, authVars,
      pagesVars>>

notCallVars ==
    <<reviewVars, categoryVars, parseVars, csvVars, apiVars, authVars,
      pagesVars>>

notCsvVars ==
    <<reviewVars, categoryVars, parseVars, callVars, apiVars, authVars,
      pagesVars>>

notApiVars ==
    <<reviewVars, categoryVars, parseVars, callVars, csvVars, authVars,
      pagesVars>>

notAuthVars ==
    <<reviewVars, categoryVars, parseVars, callVars, csvVars, apiVars,
      pagesVars>>

notPagesVars ==
    <<reviewVars, categoryVars, parseVars, callVars, csvVars, apiVars,
      authVars>>

vars ==
    <<reviewVars, categoryVars, parseVars, callVars, csvVars, apiVars,
      authVars, pagesVars>>

-----------------------------------------------------------------------------
(* Bounds of the enumerated inputs *)

MaxRows == 3

MaxTopN == 2

MaxCats == 2

MaxCells == 3

MaxCalls == 3

MaxChars == 3

MaxRequests == 3

MaxTime == 2

MaxHours == 50

MaxPagesArg == 5

(* Program constants *)

PctScale == 100

LowPct == 5

DefaultTopN == 10

HttpOk == 200

HttpServerError == 500

HttpNotFound == 404

HttpForbidden == 403

HttpBadRequest == 400

(* timedelta(hours=24) *)
SessionHours == 24

(* size = 20 *)
PageSize == 20

(* max_pages=5 *)
DefaultMaxPages == 5

-----------------------------------------------------------------------------
(* Value universes.  The sequences list the strings in ascending           *)
(* (lexicographic) order, which is the order pandas sorts them in.         *)

CategoryOrder == <<"Electronics", "Hotel">>

AspectOrder == <<"battery", "screen", "wifi">>

Range(s) == {s[i] : i \in DOMAIN s}

Categories == Range(CategoryOrder)

Aspects == Range(AspectOrder)

Rank(order, x) == CHOOSE i \in DOMAIN order : order[i] = x

None == [none |-> TRUE]

-----------------------------------------------------------------------------
(* The parts of the program at rest.  Each specification runs one part and *)
(* keeps the others at rest.                                               *)

(* The review aggregator at rest. *)
ReviewIdle ==
    /\ df = None
    /\ pc = "idle"
    /\ outcome = "none"
    /\ analysis_df = None
    /\ pivot_df = None
    /\ top_n = 0
    /\ top_aspects = None
    /\ sort_stable = TRUE
    /\ http_status = 0
    /\ low_aspects = None
    /\ distribution = None

(* The category aggregator at rest. *)
CategoryIdle ==
    /\ cat_df = None
    /\ cat_pc = "idle"
    /\ cat_outcome = "none"
    /\ cat_analysis = None
    /\ freq_stable = TRUE
    /\ matrix = None
    /\ matrix_outcome = "none"
    /\ cat_status = 0

(* The normalisation of an aspects column at rest. *)
ParseIdle ==
    /\ raw_aspects = <<>>
    /\ parse_pc = "idle"
    /\ parse_raised = "no"
    /\ aspects_parsed = None
    /\ parse_status = 0

(* No call to the aggregators was made. *)
CallsIdle ==
    /\ calls = <<>>
    /\ sort_kind = "stable"

(* No review file is being processed. *)
CsvIdle ==
    /\ csv_aspects = <<>>
    /\ csv_pc = "idle"
    /\ csv_result = None

(* The API server before any request. *)
ApiIdle ==
    /\ now = 0
    /\ stepped_back = FALSE
    /\ uploads = {}
    /\ upload_writes = 0
    /\ category_writes = 0
    /\ analyses = 0
    /\ accepted = <<>>
    /\ requests = 0
    /\ resp = None
    /\ catalog_ok = FALSE

(* The session before any call of auth.py. *)
AuthIdle ==
    /\ clock = 0
    /\ session = None
    /\ auth_op = "none"
    /\ auth_returned = FALSE
    /\ last_auth = None
    /\ logout_since = FALSE
    /\ any_raised = FALSE

(* No call of get_review_categories_paginated in progress. *)
PagesIdle ==
    /\ max_pages = 0
    /\ server = None
    /\ page = 0
    /\ more_pages = TRUE
    /\ page_pc = "idle"
    /\ all_results = <<>>
    /\ requested = <<>>
    /\ responses = <<>>
    /\ pages_output = None

(* Every part but the active one is at rest. *)
Quiet(active) ==
    /\ active # "review" => ReviewIdle
    /\ active # "category" => CategoryIdle
    /\ active # "parse" => ParseIdle
    /\ active # "calls" => CallsIdle
    /\ active # "csv" => CsvIdle
    /\ active # "api" => ApiIdle
    /\ active # "auth" => AuthIdle
    /\ active # "pages" => PagesIdle

-----------------------------------------------------------------------------
(* Exact fractions *)

RECURSIVE Gcd(_, _)
Gcd(a, b) == IF b = 0 THEN a ELSE Gcd(b, a % b)

Frac(n, d) == [num |-> n \div Gcd(n, d), den |-> d \div Gcd(n, d)]

FracLess(p, q) == p.num * q.den < q.num * p.den

-----------------------------------------------------------------------------
(* pandas / Python primitives used by the aggregator *)

(* Series.unique() and dict key order: the distinct values in order of     *)
(* first appearance.                                                       *)
Unique(s) ==
    LET first == {i \in DOMAIN s : \A j \in 1..(i - 1) : s[j] # s[i]}
    IN  [k \in 1..Cardinality(first) |->
            s[CHOOSE i \in first : Cardinality({j \in first : j < i}) = k - 1]]

(* The values of a set of strings in ascending order. *)
SortedSeq(order, S) == SelectSeq(order, LAMBDA x : x \in S)

(* The nested loops "for aspect_list in ...: for aspect in aspect_list":   *)
(* every tag of every row, in row order.                                   *)
RECURSIVE TagsOf(_)
TagsOf(rows) ==
    IF Len(rows) = 0 THEN <<>>
    ELSE IF Len(rows) = 1 THEN rows[1].aspects_list
    ELSE LET half == Len(rows) \div 2
         IN  TagsOf(SubSeq(rows, 1, half))
                \o TagsOf(SubSeq(rows, half + 1, Len(rows)))

Occurrences(s, x) == Cardinality({i \in DOMAIN s : s[i] = x})

Column(rows, name) == [i \in DOMAIN rows |-> rows[i][name]]

-----------------------------------------------------------------------------
(* analyze_aspects *)

RequiredColumns == {"category", "aspects_list"}

(* Faulty variant: "if df is not None and len(df) == 0". *)
IsEmptyInputUnlessNone(d) == d # None /\ Len(d.rows) = 0

(* Faulty variant: "len(df) <= 1". *)
IsEmptyInputOffByOne(d) == d = None \/ Len(d.rows) <= 1

(* "if df is None or len(df) == 0" *)
IsEmptyInput(d) == d = None \/ Len(d.rows) = 0

(* df['category'] and df['aspects_list'] raise KeyError on a table that    *)
(* lacks the column.                                                       *)
MissingColumn(d) == ~(RequiredColumns \subseteq d.columns)

(* Faulty variant: the category column without .unique(). *)
UniqueCategoriesKeepRepeats(d) == Column(d.rows, "category")

(* df['category'].unique() *)
UniqueCategories(d) == Unique(Column(d.rows, "category"))

(* df[df['category'] == category] *)
CategoryReviews(d, category) ==
    SelectSeq(d.rows, LAMBDA r : r.category = category)

(* Faulty variant: "for aspect in set(aspect_list)", one count per review. *)
AspectCountsOncePerReview(category_reviews) ==
    LET keys == Unique(TagsOf(category_reviews))
    IN  [i \in DOMAIN keys |->
            [aspect |-> keys[i],
             count  |-> Cardinality({r \in DOMAIN category_reviews :
                           keys[i] \in Range(category_reviews[r].aspects_list)})]]

(* aspect_counts: a dict, i.e. the keys in insertion order, each with the  *)
(* number of times it was incremented.                                     *)
AspectCounts(category_reviews) ==
    LET tags == TagsOf(category_reviews)
        keys == Unique(tags)
    IN  [i \in DOMAIN keys |->
            [aspect |-> keys[i], count |-> Occurrences(tags, keys[i])]]

(* Faulty variant: the share without "* 100". *)
PercentageUnscaled(count, total_category_reviews) ==
    Frac(count, total_category_reviews)

(* percentage = (count / total_category_reviews) * 100 *)
Percentage(count, total_category_reviews) ==
    Frac(count * PctScale, total_category_reviews)

(* Faulty variant: "percentage <= 5.0". *)
IsLowInclusive(percentage) == ~FracLess(Frac(LowPct, 1), percentage)

(* is_low = percentage < 5.0 *)
IsLow(percentage) == FracLess(percentage, Frac(LowPct, 1))

(* The rows appended to analysis_data for one category. *)
CategoryStats(d, category) ==
    LET category_reviews       == CategoryReviews(d, category)
        total_category_reviews == Len(category_reviews)
        aspect_counts          == AspectCounts(category_reviews)
    IN  [i \in DOMAIN aspect_counts |->
            LET percentage ==
                    Percentage(aspect_counts[i].count, total_category_reviews)
            IN  [category          |-> category,
                 aspect            |-> aspect_counts[i].aspect,
                 count             |-> aspect_counts[i].count,
                 total_reviews     |-> total_category_reviews,
                 percentage        |-> percentage,
                 is_low_percentage |-> IsLow(percentage)]]

RECURSIVE StatsOver(_, _)
StatsOver(d, categories) ==
    IF categories = <<>> THEN <<>>
    ELSE StatsOver(d, SubSeq(categories, 1, Len(categories) - 1))
            \o CategoryStats(d, categories[Len(categories)])

(* analysis_data after the loop over the categories. *)
AnalysisData(d) == StatsOver(d, UniqueCategories(d))

Zero == Frac(0, 1)

(* Faulty variant: pivot_table without fill_value, missing cells stay null. *)
PivotTableNoFill(stats) ==
    LET index   == SortedSeq(AspectOrder, {stats[i].aspect : i \in DOMAIN stats})
        columns == SortedSeq(CategoryOrder, {stats[i].category : i \in DOMAIN stats})
        Hits(a, c) == {i \in DOMAIN stats :
                          stats[i].aspect = a /\ stats[i].category = c}
    IN  [index   |-> index,
         columns |-> columns,
         cell    |-> [k \in Range(index) \X Range(columns) |->
                        IF Hits(k[1], k[2]) = {} THEN None
                        ELSE stats[CHOOSE i \in Hits(k[1], k[2]) : TRUE].percentage]]

(* Faulty variant: index='category', columns='aspect'. *)
PivotTableTransposed(stats) ==
    LET index   == SortedSeq(CategoryOrder, {stats[i].category : i \in DOMAIN stats})
        columns == SortedSeq(AspectOrder, {stats[i].aspect : i \in DOMAIN stats})
        Hits(c, a) == {i \in DOMAIN stats :
                          stats[i].aspect = a /\ stats[i].category = c}
    IN  [index   |-> index,
         columns |-> columns,
         cell    |-> [k \in Range(index) \X Range(columns) |->
                        IF Hits(k[1], k[2]) = {} THEN Zero
                        ELSE stats[CHOOSE i \in Hits(k[1], k[2]) : TRUE].percentage]]

(* analysis_df.pivot_table(index='aspect', columns='category',             *)
(*     values='percentage', fill_value=0).reset_index()                    *)
(* One row per aspect of the statistics and one column per category of the *)
(* statistics, both in ascending order; the mean of the single percentage  *)
(* of a pair is that percentage.                                           *)
PivotTable(stats) ==
    LET index   == SortedSeq(AspectOrder, {stats[i].aspect : i \in DOMAIN stats})
        columns == SortedSeq(CategoryOrder, {stats[i].category : i \in DOMAIN stats})
        Hits(a, c) == {i \in DOMAIN stats :
                          stats[i].aspect = a /\ stats[i].category = c}
    IN  [index   |-> index,
         columns |-> columns,
         cell    |-> [k \in Range(index) \X Range(columns) |->
                        IF Hits(k[1], k[2]) = {} THEN Zero
                        ELSE stats[CHOOSE i \in Hits(k[1], k[2]) : TRUE].percentage]]

(* The whole function: what it returns, or the exception it raises. *)
AnalyzeAspectsResult(d) ==
    IF IsEmptyInput(d)
    THEN [raised |-> "no", analysis |-> None, pivot |-> None]
    ELSE IF d = None     \* None is not subscriptable
    THEN [raised |-> "TypeError", analysis |-> None, pivot |-> None]
    ELSE IF MissingColumn(d)
    THEN [raised |-> "KeyError", analysis |-> None, pivot |-> None]
    ELSE LET analysis_data == AnalysisData(d)
         IN  IF analysis_data = <<>>
             THEN [raised |-> "no", analysis |-> None, pivot |-> None]
             ELSE [raised   |-> "no",
                   analysis |-> [rows |-> analysis_data],
                   pivot    |-> PivotTable(analysis_data)]

-----------------------------------------------------------------------------
(* get_top_aspects *)

(* analysis_df.groupby('aspect')['count'].sum().reset_index(): one row per *)
(* aspect, in ascending aspect order, with the sum of its counts.          *)
RECURSIVE SumCounts(_, _)
SumCounts(stats, a) ==
    IF stats = <<>> THEN 0
    ELSE SumCounts(SubSeq(stats, 1, Len(stats) - 1), a)
            + (IF stats[Len(stats)].aspect = a THEN stats[Len(stats)].count ELSE 0)

(* Faulty variant: groupby(..., sort=False), groups in first-seen order. *)
GroupOrderFirstSeen(stats) == Unique(Column(stats, "aspect"))

GroupOrder(stats) ==
    SortedSeq(AspectOrder, {stats[i].aspect : i \in DOMAIN stats})

AspectTotals(stats) ==
    LET keys == GroupOrder(stats)
    IN  [i \in DOMAIN keys |->
            [aspect |-> keys[i], count |-> SumCounts(stats, keys[i])]]

Bijections(n) ==
    {f \in [1..n -> 1..n] : \A i, j \in 1..n : i # j => f[i] # f[j]}

(* Faulty variant: sort_values('count') in the default ascending order. *)
SortOutcomesAscending(totals) ==
    {[i \in DOMAIN totals |-> totals[f[i]]] :
        f \in {g \in Bijections(Len(totals)) :
                 \A i \in 1..(Len(totals) - 1) :
                     totals[g[i]].count <= totals[g[i + 1]].count}}

(* sort_values('count', ascending=False): the default sort kind is         *)
(* quicksort, which is not stable, so every arrangement with               *)
(* non-increasing counts is a possible outcome.                            *)
SortOutcomes(totals) ==
    {[i \in DOMAIN totals |-> totals[f[i]]] :
        f \in {g \in Bijections(Len(totals)) :
                 \A i \in 1..(Len(totals) - 1) :
                     totals[g[i]].count >= totals[g[i + 1]].count}}

(* The outcome in which rows of equal count keep their order. *)
StableOutcome(totals) ==
    CHOOSE s \in SortOutcomes(totals) :
        \A i, j \in DOMAIN s :
            (i < j /\ s[i].count = s[j].count)
                => \E k, l \in DOMAIN totals :
                      k < l /\ totals[k] = s[i] /\ totals[l] = s[j]

(* .head(top_n) *)
HeadRows(s, n) == SubSeq(s, 1, IF n < Len(s) THEN n ELSE Len(s))

-----------------------------------------------------------------------------
(* get_low_percentage_aspects *)

(* analysis_df[analysis_df['is_low_percentage'] == True] *)
LowRows(stats) == SelectSeq(stats, LAMBDA r : r.is_low_percentage)

(* Faulty variant: sort_values('percentage', ascending=False). *)
PercentageSortOutcomesDescending(rows) ==
    {[i \in DOMAIN rows |-> rows[f[i]]] :
        f \in {g \in Bijections(Len(rows)) :
                 \A i \in 1..(Len(rows) - 1) :
                     ~FracLess(rows[g[i]].percentage, rows[g[i + 1]].percentage)}}

(* sort_values('percentage'): ascending, with the default (unstable) sort  *)
(* kind, so every arrangement with non-decreasing percentages is possible. *)
PercentageSortOutcomes(rows) ==
    {[i \in DOMAIN rows |-> rows[f[i]]] :
        f \in {g \in Bijections(Len(rows)) :
                 \A i \in 1..(Len(rows) - 1) :
                     ~FracLess(rows[g[i + 1]].percentage, rows[g[i]].percentage)}}

-----------------------------------------------------------------------------
(* get_aspect_distribution *)

RECURSIVE MentionsIn(_, _)
MentionsIn(stats, c) ==
    IF stats = <<>> THEN 0
    ELSE MentionsIn(SubSeq(stats, 1, Len(stats) - 1), c)
            + (IF stats[Len(stats)].category = c THEN stats[Len(stats)].count ELSE 0)

(* Faulty variant: groupby('category')['count'].sum(), the mentions. *)
DistributionByMentions(stats) ==
    LET keys == SortedSeq(CategoryOrder, {stats[i].category : i \in DOMAIN stats})
    IN  [k \in DOMAIN keys |->
            [category |-> keys[k], unique_aspects |-> MentionsIn(stats, keys[k])]]

(* analysis_df.groupby('category')['aspect'].nunique().reset_index(), the  *)
(* columns renamed to category, unique_aspects: one row per category of    *)
(* the statistics, in ascending category order.                            *)
Distribution(stats) ==
    LET keys == SortedSeq(CategoryOrder, {stats[i].category : i \in DOMAIN stats})
    IN  [k \in DOMAIN keys |->
            [category       |-> keys[k],
             unique_aspects |->
                 Cardinality({stats[i].aspect :
                                 i \in {j \in DOMAIN stats :
                                           stats[j].category = keys[k]}})]]

-----------------------------------------------------------------------------
(* Input tables *)

TagLists ==
    {<<>>, <<"screen">>, <<"wifi">>,
     <<"screen", "battery">>, <<"screen", "screen">>}

SeqsUpTo(S, n) == UNION {[1..k -> S] : k \in 0..n}

(* Untagged reviews appended to a table, so that two tags among            *)
(* 2 * PctScale / LowPct reviews (exactly 5 %) occur, and so that counts   *)
(* of 1 and of 2 can both fall under 5 %.                                  *)
Filler == [category |-> CategoryOrder[1], aspects_list |-> <<>>]

PadLengths == {0, (PctScale \div LowPct) * 2 - 1}

(* Every table of up to MaxRows reviews, and every table of up to three    *)
(* reviews followed by the untagged ones.                                  *)
FullTables ==
    {[columns |-> RequiredColumns, rows |-> rs] :
        rs \in SeqsUpTo([category : Categories, aspects_list : TagLists], MaxRows)}
    \cup
    {[columns |-> RequiredColumns,
      rows    |-> rs \o [i \in 1..pad |-> Filler]] :
        rs \in SeqsUpTo([category : Categories, aspects_list : TagLists], 3),
        pad \in PadLengths}

(* Tables that lack a required column: their rows have no such field. *)
PartialTables ==
    {[columns |-> {"category"}, rows |-> rs] :
        rs \in SeqsUpTo([category : Categories], MaxRows)}
    \cup
    {[columns |-> {"aspects_list"}, rows |-> rs] :
        rs \in SeqsUpTo([aspects_list : TagLists], MaxRows)}

-----------------------------------------------------------------------------
(* The state machine: a caller holds a table, analyses it and ranks the    *)
(* aspects of the analysis.                                                *)

Init ==
    /\ df \in {None} \cup FullTables \cup PartialTables
    /\ pc = "start"
    /\ outcome = "none"
    /\ analysis_df = None
    /\ pivot_df = None
    /\ top_n = 0
    /\ top_aspects = None
    /\ sort_stable = TRUE
    /\ http_status = 0
    /\ low_aspects = None
    /\ distribution = None
    /\ Quiet("review")

AnalyzeAspects ==
    /\ pc = "start"
    /\ LET r == AnalyzeAspectsResult(df)
       IN  /\ outcome' = (IF r.raised = "no" THEN "returned" ELSE r.raised)
           /\ analysis_df' = r.analysis
           /\ pivot_df' = r.pivot
    /\ pc' = "analyzed"
    /\ UNCHANGED <<df, top_n, top_aspects, sort_stable, http_status,
                   low_aspects, distribution>>
    /\ UNCHANGED notReviewVars

GetTopAspects ==
    /\ pc = "analyzed"
    /\ outcome = "returned"
    /\ \E n \in 0..MaxTopN :
        /\ top_n' = n
        /\ IF analysis_df = None
           THEN /\ top_aspects' = None
                /\ sort_stable' = TRUE
           ELSE LET aspect_totals == AspectTotals(analysis_df.rows)
                IN  \E sorted \in SortOutcomes(aspect_totals) :
                        /\ top_aspects' = [rows |-> HeadRows(sorted, n)]
                        /\ sort_stable' = (sorted = StableOutcome(aspect_totals))
    /\ pc' = "top"
    /\ UNCHANGED <<df, outcome, analysis_df, pivot_df, http_status,
                   low_aspects, distribution>>
    /\ UNCHANGED notReviewVars

GetLowPercentageAspects ==
    /\ pc = "analyzed"
    /\ outcome = "returned"
    /\ IF analysis_df = None
       THEN low_aspects' = None
       ELSE \E sorted \in PercentageSortOutcomes(LowRows(analysis_df.rows)) :
               low_aspects' = [rows |-> sorted]
    /\ pc' = "low"
    /\ UNCHANGED <<df, outcome, analysis_df, pivot_df, http_status, top_n,
                   top_aspects, sort_stable, distribution>>
    /\ UNCHANGED notReviewVars

GetAspectDistribution ==
    /\ pc = "analyzed"
    /\ outcome = "returned"
    /\ distribution' = (IF analysis_df = None THEN None
                        ELSE [rows |-> Distribution(analysis_df.rows)])
    /\ pc' = "distribution"
    /\ UNCHANGED <<df, outcome, analysis_df, pivot_df, http_status, top_n,
                   top_aspects, sort_stable, low_aspects>>
    /\ UNCHANGED notReviewVars

(* What process_csv can hand to the endpoint: None, or a table with both   *)
(* columns in which, if it has rows at all, some row carries a tag (an     *)
(* aspects column without any text is rejected by process_csv).            *)
FromProcessCsv(d) ==
    IF d = None THEN TRUE
    ELSE /\ RequiredColumns \subseteq d.columns
         /\ (d.rows # <<>> => \E i \in DOMAIN d.rows : d.rows[i].aspects_list # <<>>)

(* GET /api/analytics/reviews, for an authenticated request and a stored   *)
(* file, from "df = process_csv(file_path)" on: the table is rejected when *)
(* it is None or has no rows, the analysis is run, a None analysis is      *)
(* rejected, and otherwise the top aspects, the low-percentage aspects and *)
(* the aspect distribution are computed and 200 returned.                  *)
(* Any exception is answered 500 by the handler's except clause.           *)
GetReviewAnalytics ==
    /\ pc = "start"
    /\ FromProcessCsv(df)
    /\ IF df = None \/ Len(df.rows) = 0
       THEN /\ http_status' = HttpServerError
            /\ UNCHANGED <<outcome, analysis_df, pivot_df, top_n, top_aspects,
                           sort_stable, low_aspects, distribution>>
       ELSE LET r == AnalyzeAspectsResult(df)
            IN  /\ outcome' = (IF r.raised = "no" THEN "returned" ELSE r.raised)
                /\ analysis_df' = r.analysis
                /\ pivot_df' = r.pivot
                /\ IF r.raised # "no" \/ r.analysis = None
                   THEN /\ http_status' = HttpServerError
                        /\ UNCHANGED <<top_n, top_aspects, sort_stable,
                                       low_aspects, distribution>>
                   ELSE LET aspect_totals == AspectTotals(r.analysis.rows)
                        IN  \E sorted \in SortOutcomes(aspect_totals) :
                              /\ top_n' = DefaultTopN
                              /\ top_aspects' =
                                    [rows |-> HeadRows(sorted, DefaultTopN)]
                              /\ sort_stable' =
                                    (sorted = StableOutcome(aspect_totals))
                              /\ \E low \in PercentageSortOutcomes(
                                                LowRows(r.analysis.rows)) :
                                    low_aspects' = [rows |-> low]
                              /\ distribution' =
                                    [rows |-> Distribution(r.analysis.rows)]
                              /\ http_status' = HttpOk
    /\ pc' = "responded"
    /\ UNCHANGED df
    /\ UNCHANGED notReviewVars

Next ==
    \/ AnalyzeAspects
    \/ GetTopAspects
    \/ GetLowPercentageAspects
    \/ GetAspectDistribution
    \/ GetReviewAnalytics

Spec == Init /\ [][Next]_vars

-----------------------------------------------------------------------------
(* analyze_category_aspects *)

(* Faulty variant: the categories whose parsed list is empty (a recount). *)
CategoriesNoAspectsByRecount(d) ==
    SelectSeq(d.rows, LAMBDA r : Len(r.aspects_parsed) = 0)

(* df[df['aspectsCount'] == 0] *)
CategoriesNoAspects(d) == SelectSeq(d.rows, LAMBDA r : r.aspectsCount = 0)

(* "for aspects_list in df['aspects_parsed']: for aspect in aspects_list": *)
(* every entry of every parsed list, in row order.                         *)
RECURSIVE ParsedEntries(_)
ParsedEntries(rows) ==
    IF rows = <<>> THEN <<>>
    ELSE ParsedEntries(SubSeq(rows, 1, Len(rows) - 1))
            \o rows[Len(rows)].aspects_parsed

(* Faulty variant: "aspect_counts.get(aspect, 1) + 1", counting from one. *)
CategoryAspectCountsFromOne(rows) ==
    LET entries == ParsedEntries(rows)
        keys    == Unique(entries)
    IN  [i \in DOMAIN keys |->
            [aspect |-> keys[i], count |-> Occurrences(entries, keys[i]) + 1]]

(* aspect_counts after the loops: the keys in insertion order, each with   *)
(* the number of times it was incremented.                                 *)
CategoryAspectCounts(rows) ==
    LET entries == ParsedEntries(rows)
        keys    == Unique(entries)
    IN  [i \in DOMAIN keys |->
            [aspect |-> keys[i], count |-> Occurrences(entries, keys[i])]]

(* The result of analyze_category_aspects(d) before aspect_freq is sorted, *)
(* or the exception it raises: df['aspectsCount'] and df['aspects_parsed'] *)
(* raise KeyError on a table that lacks the column.                        *)
AnalyzeCategoryAspectsResult(d) ==
    IF d = None
    THEN [raised |-> "no", analysis |-> None]
    ELSE IF "aspectsCount" \notin d.columns \/ "aspects_parsed" \notin d.columns
    THEN [raised |-> "KeyError", analysis |-> None]
    ELSE [raised   |-> "no",
          analysis |-> [all_aspects           |-> Range(ParsedEntries(d.rows)),
                        aspect_counts         |-> CategoryAspectCounts(d.rows),
                        categories_no_aspects |-> CategoriesNoAspects(d)]]

-----------------------------------------------------------------------------
(* create_aspect_category_matrix *)

(* Faulty variant: the first row of a name keeps its aspect set. *)
CategoryAspectsFirstWins(rows) ==
    LET keys == Unique(Column(rows, "name"))
    IN  [keys |-> keys,
         sets |-> [c \in Range(keys) |->
                     Range(rows[CHOOSE i \in DOMAIN rows :
                                   /\ rows[i].name = c
                                   /\ \A j \in DOMAIN rows :
                                         rows[j].name = c => i <= j
                               ].aspects_parsed)]]

(* Faulty variant: only the categories that list an aspect get a key. *)
CategoryAspectsNonEmptyOnly(rows) ==
    LET keys == Unique(Column(SelectSeq(rows, LAMBDA r : r.aspects_parsed # <<>>),
                              "name"))
    IN  [keys |-> keys,
         sets |-> [c \in Range(keys) |->
                     Range(rows[CHOOSE i \in DOMAIN rows :
                                   /\ rows[i].name = c
                                   /\ \A j \in DOMAIN rows :
                                         rows[j].name = c => j <= i
                               ].aspects_parsed)]]

(* category_aspects: a dict keyed by row['name'], filled in row order, so  *)
(* its keys stand in first-seen order and each key holds the set of the    *)
(* last row of that name.                                                  *)
CategoryAspects(rows) ==
    LET keys == Unique(Column(rows, "name"))
    IN  [keys |-> keys,
         sets |-> [c \in Range(keys) |->
                     Range(rows[CHOOSE i \in DOMAIN rows :
                                   /\ rows[i].name = c
                                   /\ \A j \in DOMAIN rows :
                                         rows[j].name = c => j <= i
                               ].aspects_parsed)]]

(* Faulty variant: the rows in the order the aspects were first seen. *)
MatrixAspectsFirstSeen(rows) == Unique(ParsedEntries(rows))

(* sorted(all_aspects) *)
MatrixAspects(rows) == SortedSeq(AspectOrder, Range(ParsedEntries(rows)))

(* pd.DataFrame(matrix_data): one record per aspect with the key 'aspect'  *)
(* and one key per category; the columns are the keys of the records, so   *)
(* an empty matrix_data gives a frame without columns.                     *)
MatrixData(rows) ==
    LET aspects          == MatrixAspects(rows)
        category_aspects == CategoryAspects(rows)
    IN  [columns |-> IF aspects = <<>> THEN <<>>
                     ELSE <<"aspect">> \o category_aspects.keys,
         rows    |-> [k \in DOMAIN aspects |->
                        [aspect |-> aspects[k],
                         cells  |-> [c \in Range(category_aspects.keys) |->
                                       IF aspects[k] \in category_aspects.sets[c]
                                       THEN 1 ELSE 0]]]]

(* The result of create_aspect_category_matrix(d), or the exception it     *)
(* raises: df['aspects_parsed'] on a table without the column, and         *)
(* row['aspects_parsed'] / row['name'] on a row without the field.         *)
CreateAspectCategoryMatrixResult(d) ==
    IF d = None
    THEN [raised |-> "no", matrix |-> None]
    ELSE IF \/ "aspects_parsed" \notin d.columns
            \/ (d.rows # <<>> /\ "name" \notin d.columns)
    THEN [raised |-> "KeyError", matrix |-> None]
    ELSE [raised |-> "no", matrix |-> MatrixData(d.rows)]

-----------------------------------------------------------------------------
(* Category tables *)

CategoryColumns == {"name", "aspectsCount", "aspects_parsed"}

(* The supplied aspectsCount of a row: zero, less than, equal to and more  *)
(* than the length of the row's list all occur.                            *)
AspectsCountValues == {0, 1, 2}

ParsedLists ==
    {<<>>, <<"battery">>, <<"screen", "battery">>, <<"screen", "screen">>}

CategoryRows ==
    [name : Categories, aspectsCount : AspectsCountValues,
     aspects_parsed : ParsedLists]

FullCategoryTables ==
    {[columns |-> CategoryColumns, rows |-> rs] :
        rs \in SeqsUpTo(CategoryRows, MaxCats)}

(* pd.DataFrame([]): the table of an empty JSON array has no columns. *)
ColumnlessTable == [columns |-> {}, rows |-> <<>>]

(* Tables that lack a column: their rows have no such field. *)
PartialCategoryTables ==
    {ColumnlessTable}
    \cup {[columns |-> {"name", "aspects_parsed"}, rows |-> rs] :
            rs \in SeqsUpTo([name : Categories, aspects_parsed : ParsedLists],
                            MaxCats)}
    \cup {[columns |-> {"name", "aspectsCount"}, rows |-> rs] :
            rs \in SeqsUpTo([name : Categories,
                             aspectsCount : AspectsCountValues], MaxCats)}
    \cup {[columns |-> {"aspectsCount", "aspects_parsed"}, rows |-> rs] :
            rs \in SeqsUpTo([aspectsCount : AspectsCountValues,
                             aspects_parsed : ParsedLists], MaxCats)}

-----------------------------------------------------------------------------
(* The state machine of the category aggregator: a caller holds a category *)
(* table and analyses it, builds its matrix, or an endpoint does so.       *)

InitCat ==
    /\ Quiet("category")
    /\ cat_df \in {None} \cup FullCategoryTables \cup PartialCategoryTables
    /\ cat_pc = "start"
    /\ cat_outcome = "none"
    /\ cat_analysis = None
    /\ freq_stable = TRUE
    /\ matrix = None
    /\ matrix_outcome = "none"
    /\ cat_status = 0

(* analysis' and freq_stable' for a result r of                            *)
(* AnalyzeCategoryAspectsResult: aspect_freq is aspect_counts under        *)
(* sort_values('count', ascending=False).                                  *)
SortedAnalysis(r) ==
    IF r.analysis = None
    THEN /\ cat_analysis' = None
         /\ freq_stable' = TRUE
    ELSE \E sorted \in SortOutcomes(r.analysis.aspect_counts) :
            /\ cat_analysis' =
                  [all_aspects           |-> r.analysis.all_aspects,
                   aspect_counts         |-> r.analysis.aspect_counts,
                   aspect_freq           |-> sorted,
                   categories_no_aspects |-> r.analysis.categories_no_aspects]
            /\ freq_stable' = (sorted = StableOutcome(r.analysis.aspect_counts))

AnalyzeCategoryAspects ==
    /\ cat_pc = "start"
    /\ LET r == AnalyzeCategoryAspectsResult(cat_df)
       IN  /\ cat_outcome' = (IF r.raised = "no" THEN "returned" ELSE r.raised)
           /\ SortedAnalysis(r)
    /\ cat_pc' = "analyzed"
    /\ UNCHANGED <<cat_df, matrix, matrix_outcome, cat_status>>
    /\ UNCHANGED notCategoryVars

CreateAspectCategoryMatrix ==
    /\ cat_pc = "start"
    /\ LET r == CreateAspectCategoryMatrixResult(cat_df)
       IN  /\ matrix_outcome' = (IF r.raised = "no" THEN "returned" ELSE r.raised)
           /\ matrix' = r.matrix
    /\ cat_pc' = "matrix"
    /\ UNCHANGED <<cat_df, cat_outcome, cat_analysis, freq_stable, cat_status>>
    /\ UNCHANGED notCategoryVars

(* What POST /api/upload/review_categories/json hands to the analysis: the *)
(* frame of a JSON array, which has the columns of its objects, hence none *)
(* when the array is empty.                                                *)
FromJsonArray(d) ==
    IF d = None THEN FALSE
    ELSE d.rows = <<>> => d.columns = {}

(* POST /api/upload/review_categories/json, for an authenticated request   *)
(* whose body is a JSON array, from "df = pd.DataFrame(data)" on: the      *)
(* analysis is run and 200 returned; any exception is answered 500 by the  *)
(* handler's except clause.                                                *)
UploadCategoriesJson ==
    /\ cat_pc = "start"
    /\ FromJsonArray(cat_df)
    /\ LET r == AnalyzeCategoryAspectsResult(cat_df)
       IN  /\ cat_outcome' = (IF r.raised = "no" THEN "returned" ELSE r.raised)
           /\ SortedAnalysis(r)
           /\ cat_status' = (IF r.raised = "no" THEN HttpOk
                             ELSE HttpServerError)
    /\ cat_pc' = "uploaded"
    /\ UNCHANGED <<cat_df, matrix, matrix_outcome>>
    /\ UNCHANGED notCategoryVars

(* What load_category_data returns: None, or a table to which the          *)
(* aspects_parsed column was added.                                        *)
FromLoadCategoryData(d) ==
    IF d = None THEN TRUE ELSE "aspects_parsed" \in d.columns

(* GET /api/analytics/categories, for an authenticated request, from       *)
(* "df = load_category_data()" on: 404 when the table is None or has no    *)
(* rows, then the analysis and the matrix, and 200; any exception is       *)
(* answered 500 by the handler's except clause.                            *)
GetCategoryAnalytics ==
    /\ cat_pc = "start"
    /\ FromLoadCategoryData(cat_df)
    /\ IF cat_df = None \/ Len(cat_df.rows) = 0
       THEN /\ cat_status' = HttpNotFound
            /\ UNCHANGED <<cat_outcome, cat_analysis, freq_stable,
                           matrix, matrix_outcome>>
       ELSE LET r == AnalyzeCategoryAspectsResult(cat_df)
                m == CreateAspectCategoryMatrixResult(cat_df)
            IN  /\ cat_outcome' = (IF r.raised = "no" THEN "returned"
                                   ELSE r.raised)
                /\ SortedAnalysis(r)
                /\ IF r.raised # "no"
                   THEN /\ cat_status' = HttpServerError
                        /\ UNCHANGED <<matrix, matrix_outcome>>
                   ELSE /\ matrix_outcome' = (IF m.raised = "no" THEN "returned"
                                              ELSE m.raised)
                        /\ matrix' = m.matrix
                        /\ cat_status' = (IF m.raised = "no" THEN HttpOk
                                          ELSE HttpServerError)
    /\ cat_pc' = "responded"
    /\ UNCHANGED cat_df
    /\ UNCHANGED notCategoryVars

NextCat ==
    \/ AnalyzeCategoryAspects
    \/ CreateAspectCategoryMatrix
    \/ UploadCategoriesJson
    \/ GetCategoryAnalytics

SpecCat == InitCat /\ [][NextCat]_vars

-----------------------------------------------------------------------------
(* Vocabulary of the properties: the input table read directly, without    *)
(* the operators of the aggregator.                                        *)

Analyzed ==
    pc \in {"analyzed", "top", "low", "distribution"} \/ (pc = "responded" /\ outcome # "none")

(* The table has both columns and analyze_aspects returned. *)
Accepted ==
    /\ Analyzed
    /\ df # None
    /\ RequiredColumns \subseteq df.columns
    /\ outcome = "returned"

StatRows == IF analysis_df = None THEN <<>> ELSE analysis_df.rows

SumOver(S, f) == Cardinality(UNION {{<<x, k>> : k \in 1..f[x]} : x \in S})

(* Positions (review, tag) of the table at which category c carries tag a. *)
TagPositions(c, a) ==
    UNION {{<<i, j>> : j \in {k \in DOMAIN df.rows[i].aspects_list :
                                  df.rows[i].aspects_list[k] = a}} :
              i \in {r \in DOMAIN df.rows : df.rows[r].category = c}}

ReviewsIn(c) == {i \in DOMAIN df.rows : df.rows[i].category = c}

TagsIn(c) == SumOver(ReviewsIn(c), [i \in ReviewsIn(c) |-> Len(df.rows[i].aspects_list)])

InputCategories == {df.rows[i].category : i \in DOMAIN df.rows}

TaggedCategories == {c \in InputCategories : TagsIn(c) > 0}

InputAspects == {a \in Aspects : \E c \in Categories : TagPositions(c, a) # {}}

StatsFor(c, a) ==
    {i \in DOMAIN StatRows : StatRows[i].category = c /\ StatRows[i].aspect = a}

NoRepeats(s) == \A i, j \in DOMAIN s : s[i] = s[j] => i = j

-----------------------------------------------------------------------------
(* C1: for every accepted table and every (category, aspect) pair, the     *)
(* count emitted for the pair equals the number of occurrences of the      *)
(* aspect among the tags of the category's reviews, a tag repeated inside  *)
(* one review counting once per repetition; so the counts of a category    *)
(* sum to the number of tags (with duplicates) of its reviews.             *)
C1_CountsAreTagOccurrences ==
    Accepted =>
        /\ \A c \in Categories, a \in Aspects :
              SumOver(StatsFor(c, a), [i \in StatsFor(c, a) |-> StatRows[i].count])
                 = Cardinality(TagPositions(c, a))
        /\ \A c \in Categories :
              LET rows == {i \in DOMAIN StatRows : StatRows[i].category = c}
              IN  SumOver(rows, [i \in rows |-> StatRows[i].count]) = TagsIn(c)

(* A review that repeats a tag has been analysed: one review, count 2. *)
C1_Witness ==
    /\ Accepted
    /\ \E i \in DOMAIN StatRows :
          StatRows[i].count = 2 /\ StatRows[i].total_reviews = 1

(* C2: the long-form result has exactly one row for each (category,        *)
(* aspect) pair that occurs in the input and none for a pair that does     *)
(* not; every row has count >= 1 and total_reviews >= 1, and total_reviews *)
(* is the number of input rows of the row's category.                      *)
C2_OneRowPerObservedPair ==
    Accepted =>
        /\ \A c \in Categories, a \in Aspects :
              Cardinality(StatsFor(c, a))
                 = (IF TagPositions(c, a) # {} THEN 1 ELSE 0)
        /\ \A i \in DOMAIN StatRows :
              /\ StatRows[i].category \in Categories
              /\ StatRows[i].aspect \in Aspects
              /\ StatRows[i].count >= 1
              /\ StatRows[i].total_reviews >= 1
              /\ StatRows[i].total_reviews
                    = Cardinality(ReviewsIn(StatRows[i].category))

(* Two categories were analysed, one aspect occurring in only one of them. *)
C2_Witness ==
    /\ Accepted
    /\ Len(StatRows) >= 2
    /\ \E c1, c2 \in Categories, a \in Aspects :
          c1 # c2 /\ StatsFor(c1, a) # {} /\ StatsFor(c2, a) = {}
             /\ c2 \in InputCategories

(* C3: for every emitted row, percentage * total_reviews = 100 * count;    *)
(* the Electronics/Hotel example yields screen 100, battery 50, wifi 100.  *)
ExampleRows ==
    << [category |-> "Electronics", aspects_list |-> <<"screen", "battery">>],
       [category |-> "Electronics", aspects_list |-> <<"screen">>],
       [category |-> "Hotel", aspects_list |-> <<"wifi">>] >>

ExampleStats ==
    << [category |-> "Electronics", aspect |-> "screen", count |-> 2,
        total_reviews |-> 2, percentage |-> [num |-> 100, den |-> 1],
        is_low_percentage |-> FALSE],
       [category |-> "Electronics", aspect |-> "battery", count |-> 1,
        total_reviews |-> 2, percentage |-> [num |-> 50, den |-> 1],
        is_low_percentage |-> FALSE],
       [category |-> "Hotel", aspect |-> "wifi", count |-> 1,
        total_reviews |-> 1, percentage |-> [num |-> 100, den |-> 1],
        is_low_percentage |-> FALSE] >>

C3_PercentageIsShareOfReviews ==
    Accepted =>
        /\ \A i \in DOMAIN StatRows :
              StatRows[i].percentage.num * StatRows[i].total_reviews
                 = 100 * StatRows[i].count * StatRows[i].percentage.den
        /\ df.rows = ExampleRows => StatRows = ExampleStats

C3_Witness == Accepted /\ df.rows = ExampleRows /\ Len(StatRows) = 3

(* C4: for every emitted row, is_low_percentage is true iff                *)
(* 100 * count < 5 * total_reviews; a pair at exactly 5 % (count 2 of 40   *)
(* reviews) is flagged false.                                              *)
C4_LowIffBelowFivePercent ==
    Accepted =>
        \A i \in DOMAIN StatRows :
            StatRows[i].is_low_percentage
               <=> (100 * StatRows[i].count < 5 * StatRows[i].total_reviews)

(* Two tags among forty reviews were analysed and are not flagged. *)
C4_Witness ==
    /\ Accepted
    /\ \E i \in DOMAIN StatRows :
          /\ StatRows[i].count = 2
          /\ StatRows[i].total_reviews = 40
          /\ ~StatRows[i].is_low_percentage

(* C5: the pivot has exactly one row per distinct aspect occurring in any  *)
(* category; the cell of (aspect, category) is the pair's percentage when  *)
(* the pair was observed and exactly 0, never missing, when it was not.    *)
C5_PivotRowsAndFill ==
    Accepted =>
        IF pivot_df = None THEN InputAspects = {}
        ELSE /\ NoRepeats(pivot_df.index)
             /\ Range(pivot_df.index) = InputAspects
             /\ DOMAIN pivot_df.cell
                   = Range(pivot_df.index) \X Range(pivot_df.columns)
             /\ \A a \in Range(pivot_df.index), c \in Range(pivot_df.columns) :
                   IF StatsFor(c, a) = {}
                   THEN pivot_df.cell[<<a, c>>] = [num |-> 0, den |-> 1]
                   ELSE \A i \in StatsFor(c, a) :
                           pivot_df.cell[<<a, c>>] = StatRows[i].percentage

(* A pivot with two columns, an observed cell and a filled cell. *)
C5_Witness ==
    /\ Accepted
    /\ pivot_df # None
    /\ Len(pivot_df.columns) = 2
    /\ \E a \in Range(pivot_df.index), c1, c2 \in Range(pivot_df.columns) :
          /\ pivot_df.cell[<<a, c1>>] = [num |-> 0, den |-> 1]
          /\ pivot_df.cell[<<a, c2>>] # [num |-> 0, den |-> 1]

(* C6 as stated: for every non-empty input table the pivot has one column  *)
(* per distinct category of the input, also when some category's reviews   *)
(* carry no tags.                                                          *)
C6_ColumnPerInputCategory ==
    (Accepted /\ Len(df.rows) > 0) =>
        /\ pivot_df # None
        /\ NoRepeats(pivot_df.columns)
        /\ Range(pivot_df.columns) = InputCategories

(* C6 amended: the pivot has one column per distinct category that has at  *)
(* least one tag among its reviews; when no review carries a tag there is  *)
(* no pivot at all.                                                        *)
C6_ColumnPerTaggedCategory ==
    Accepted =>
        /\ (pivot_df = None) <=> (TaggedCategories = {})
        /\ pivot_df # None =>
              /\ NoRepeats(pivot_df.columns)
              /\ Range(pivot_df.columns) = TaggedCategories

(* A pivot was built from a table one of whose categories has no tags. *)
C6_Witness ==
    /\ Accepted
    /\ pivot_df # None
    /\ TaggedCategories # InputCategories

(* analyze_aspects given None or a table of zero rows returns the empty   *)
(* result without raising; a table with both columns never raises,         *)
(* returning the empty result when no review carries a tag and statistics  *)
(* for the tagged categories otherwise.                                    *)
AnalysisNeverRaisesOnValidData ==
    Analyzed =>
        /\ (df = None \/ Len(df.rows) = 0) =>
              outcome = "returned" /\ analysis_df = None /\ pivot_df = None
        /\ (df # None /\ RequiredColumns \subseteq df.columns) =>
              /\ outcome = "returned"
              /\ (analysis_df = None) <=> (TaggedCategories = {})
              /\ (pivot_df = None) <=> (analysis_df = None)

(* C7: an empty review table (None or zero rows) gives an empty result     *)
(* without an error, and valid but degenerate data gives an empty or       *)
(* partial result and not an error outcome: analyze_aspects does not       *)
(* raise on it, and the reviews analytics endpoint does not answer a       *)
(* valid table with an error status.                                       *)
C7_DegenerateDataIsNotAnError ==
    /\ AnalysisNeverRaisesOnValidData
    /\ (pc = "responded" /\ df # None) => http_status # HttpServerError

(* C8 as stated: whenever the table lacks the category or the aspects      *)
(* column, analyze_aspects fails with an error and produces no result.     *)
C8_MissingColumnAlwaysFails ==
    (Analyzed /\ df # None /\ ~(RequiredColumns \subseteq df.columns)) =>
        outcome = "KeyError" /\ analysis_df = None /\ pivot_df = None

(* C8 amended: whenever a table of at least one row lacks the category or  *)
(* the aspects column, analyze_aspects fails with KeyError and produces no *)
(* result (a table of zero rows returns the empty result before any column *)
(* is read); statistics are never returned for a table that lacks a        *)
(* required column.                                                        *)
C8_MissingColumnFailsUnlessEmpty ==
    (Analyzed /\ df # None /\ ~(RequiredColumns \subseteq df.columns)) =>
        /\ analysis_df = None /\ pivot_df = None
        /\ Len(df.rows) > 0 => outcome = "KeyError"
        /\ Len(df.rows) = 0 => outcome = "returned"

(* A table with rows but without its category column was rejected. *)
C8_Witness ==
    /\ Analyzed
    /\ df # None
    /\ "category" \notin df.columns
    /\ Len(df.rows) > 0
    /\ outcome = "KeyError"

-----------------------------------------------------------------------------
(* Properties of get_top_aspects *)

Ranked ==
    /\ analysis_df # None
    /\ pc = "top" \/ (pc = "responded" /\ http_status = HttpOk)

TopRows == IF top_aspects = None THEN <<>> ELSE top_aspects.rows

StatAspects == {StatRows[i].aspect : i \in DOMAIN StatRows}

TotalOf(a) ==
    LET rows == {i \in DOMAIN StatRows : StatRows[i].aspect = a}
    IN  SumOver(rows, [i \in rows |-> StatRows[i].count])

Returned == {TopRows[i].aspect : i \in DOMAIN TopRows}

(* Position of the first row of the statistics table that names a. *)
FirstSeen(a) ==
    CHOOSE i \in DOMAIN StatRows :
        StatRows[i].aspect = a /\ \A j \in 1..(i - 1) : StatRows[j].aspect # a

(* C9: get_top_aspects(stats, n) returns for each returned aspect the sum  *)
(* of its counts over all categories, at most n rows, no aspect twice, no  *)
(* aspect of total 0, every returned total >= every total not returned,    *)
(* rows in non-increasing order of total.                                  *)
C9_TopAspects ==
    /\ (pc = "top" /\ analysis_df = None) => top_aspects = None
    /\ Ranked =>
        /\ top_aspects # None
        /\ Len(TopRows) <= top_n
        /\ Len(TopRows) = top_n \/ Returned = StatAspects
        /\ \A i, j \in DOMAIN TopRows :
              TopRows[i].aspect = TopRows[j].aspect => i = j
        /\ \A i \in DOMAIN TopRows :
              /\ TopRows[i].aspect \in StatAspects
              /\ TopRows[i].count = TotalOf(TopRows[i].aspect)
              /\ TopRows[i].count > 0
              /\ \A b \in StatAspects \ Returned :
                    TopRows[i].count >= TotalOf(b)
        /\ \A i \in 1..(Len(TopRows) - 1) :
              TopRows[i].count >= TopRows[i + 1].count

(* The top 1 of several aspects, one of them in two categories. *)
C9_Witness ==
    /\ Ranked
    /\ top_n = 1
    /\ Len(TopRows) = 1
    /\ TopRows[1].count > 1
    /\ Cardinality({i \in DOMAIN StatRows :
                       StatRows[i].aspect = TopRows[1].aspect}) = 2
    /\ \E b \in StatAspects \ Returned : TotalOf(b) < TopRows[1].count

-----------------------------------------------------------------------------
(* Properties of get_low_percentage_aspects and get_aspect_distribution *)

LowListed ==
    /\ analysis_df # None
    /\ pc = "low" \/ (pc = "responded" /\ http_status = HttpOk)

LowResult == IF low_aspects = None THEN <<>> ELSE low_aspects.rows

(* C11: get_low_percentage_aspects(stats) returns exactly the rows of      *)
(* stats whose is_low_percentage is true, no other row and none missing or *)
(* repeated, ordered by non-decreasing percentage.                         *)
C11_LowRowsSortedByPercentage ==
    /\ (pc = "low" /\ analysis_df = None) => low_aspects = None
    /\ LowListed =>
        /\ low_aspects # None
        /\ Range(LowResult)
              = {StatRows[i] : i \in {j \in DOMAIN StatRows :
                                         StatRows[j].is_low_percentage}}
        /\ NoRepeats(LowResult)
        /\ \A i, j \in DOMAIN LowResult :
              i < j => LowResult[i].percentage.num * LowResult[j].percentage.den
                          <= LowResult[j].percentage.num * LowResult[i].percentage.den

(* Two flagged rows of different percentage were returned, and a row that  *)
(* is not flagged was left out.                                            *)
C11_Witness ==
    /\ LowListed
    /\ pc = "low"
    /\ \E i, j \in DOMAIN LowResult :
          LowResult[i].percentage # LowResult[j].percentage
    /\ \E i \in DOMAIN StatRows : ~StatRows[i].is_low_percentage

Distributed ==
    /\ analysis_df # None
    /\ pc = "distribution" \/ (pc = "responded" /\ http_status = HttpOk)

DistributionRows == IF distribution = None THEN <<>> ELSE distribution.rows

(* C12: get_aspect_distribution(stats) returns one row per category        *)
(* present in stats, whose unique_aspects is the number of distinct        *)
(* aspects of that category, not the number of mentions; for stats made by *)
(* analyze_aspects this is the number of stats rows of the category.       *)
C12_DistinctAspectsPerCategory ==
    /\ (pc = "distribution" /\ analysis_df = None) => distribution = None
    /\ Distributed =>
        /\ distribution # None
        /\ \A i, j \in DOMAIN DistributionRows :
              DistributionRows[i].category = DistributionRows[j].category => i = j
        /\ {DistributionRows[i].category : i \in DOMAIN DistributionRows}
              = {StatRows[i].category : i \in DOMAIN StatRows}
        /\ \A i \in DOMAIN DistributionRows :
              LET c == DistributionRows[i].category
              IN  /\ DistributionRows[i].unique_aspects
                        = Cardinality({a \in Aspects : TagPositions(c, a) # {}})
                  /\ DistributionRows[i].unique_aspects
                        = Cardinality({j \in DOMAIN StatRows :
                                          StatRows[j].category = c})

(* Two categories, one of them with more mentions than distinct aspects. *)
C12_Witness ==
    /\ Distributed
    /\ pc = "distribution"
    /\ Len(DistributionRows) = 2
    /\ \E i \in DOMAIN DistributionRows :
          DistributionRows[i].unique_aspects < TagsIn(DistributionRows[i].category)

-----------------------------------------------------------------------------
(* Vocabulary of the category properties: the category table read          *)
(* directly.                                                               *)

CatAnalyzed ==
    cat_pc \in {"analyzed", "uploaded"}
        \/ (cat_pc = "responded" /\ cat_outcome # "none")

(* analyze_category_aspects returned a result for the table. *)
CatReturned ==
    /\ CatAnalyzed
    /\ cat_outcome = "returned"
    /\ cat_analysis # None

CatRows == IF cat_df = None THEN <<>> ELSE cat_df.rows

Freq == IF cat_analysis = None THEN <<>> ELSE cat_analysis.aspect_freq

NoAspects ==
    IF cat_analysis = None THEN <<>> ELSE cat_analysis.categories_no_aspects

(* The k-th smallest member of a set of positions. *)
Pick(S, k) == CHOOSE i \in S : Cardinality({j \in S : j < i}) = k - 1

(* Positions (row, place) of the category table, in scanning order, and    *)
(* the first of them that names aspect a.                                  *)
ListPositions ==
    UNION {{<<i, p>> : p \in DOMAIN CatRows[i].aspects_parsed} :
              i \in DOMAIN CatRows}

Before(x, y) == x[1] < y[1] \/ (x[1] = y[1] /\ x[2] < y[2])

FirstListed(a) ==
    CHOOSE x \in ListPositions :
        /\ CatRows[x[1]].aspects_parsed[x[2]] = a
        /\ \A y \in ListPositions :
              CatRows[y[1]].aspects_parsed[y[2]] = a => ~Before(y, x)

FreqTotal == SumOver(DOMAIN Freq, [k \in DOMAIN Freq |-> Freq[k].count])

SuppliedTotal ==
    SumOver(DOMAIN CatRows, [i \in DOMAIN CatRows |-> CatRows[i].aspectsCount])

(* C13: categories_no_aspects is exactly the rows of the table whose       *)
(* aspectsCount is 0, in table order, whatever the length of their parsed  *)
(* list; and the aspect counts are those of the table without its rows of  *)
(* aspectsCount 0 and empty list, which therefore add nothing.             *)
C13_NoAspectsBySuppliedCount ==
    CatReturned =>
        LET zero == {i \in DOMAIN CatRows : CatRows[i].aspectsCount = 0}
        IN  /\ NoAspects = [k \in 1..Cardinality(zero) |-> CatRows[Pick(zero, k)]]
            /\ cat_analysis.aspect_counts =
                  CategoryAspectCounts(
                      SelectSeq(CatRows,
                                LAMBDA r : ~(r.aspectsCount = 0
                                               /\ r.aspects_parsed = <<>>)))

(* A row of aspectsCount 0 with an empty list and a row of aspectsCount 0  *)
(* with a non-empty list were analysed and both are reported.              *)
C13_Witness ==
    /\ CatReturned
    /\ \E i, j \in DOMAIN CatRows :
          /\ CatRows[i].aspectsCount = 0 /\ CatRows[i].aspects_parsed = <<>>
          /\ CatRows[j].aspectsCount = 0 /\ CatRows[j].aspects_parsed # <<>>
          /\ Len(NoAspects) = 2
    /\ Freq # <<>>

(* C14: the count of each aspect of the frequency table equals the number  *)
(* of category rows whose list contains the aspect, a row that names the   *)
(* aspect several times counting once.                                     *)
C14_CountIsCategoriesContaining ==
    CatReturned =>
        \A k \in DOMAIN Freq :
            Freq[k].count =
                Cardinality({i \in DOMAIN CatRows :
                                Freq[k].aspect \in Range(CatRows[i].aspects_parsed)})

(* C15 as stated: the counts of the frequency table sum to at most the sum *)
(* of the supplied aspectsCount, for every table.                          *)
C15_FrequencySumWithinSuppliedCounts ==
    CatReturned => FreqTotal <= SuppliedTotal

(* C15: the counts of the frequency table sum to at most the sum of the    *)
(* supplied aspectsCount whenever every row's aspectsCount is at least the *)
(* number of entries of its parsed list.                                   *)
C15_FrequencySumWithinHonestCounts ==
    (CatReturned /\ \A i \in DOMAIN CatRows :
                        CatRows[i].aspectsCount >= Len(CatRows[i].aspects_parsed))
        => FreqTotal <= SuppliedTotal

(* Two rows with honest counts, one listing two entries, were analysed and *)
(* the frequency counts sum to exactly the supplied total.                 *)
C15_Witness ==
    /\ CatReturned
    /\ Len(CatRows) = 2
    /\ \A i \in DOMAIN CatRows :
          CatRows[i].aspectsCount >= Len(CatRows[i].aspects_parsed)
    /\ \E i \in DOMAIN CatRows : Len(CatRows[i].aspects_parsed) = 2
    /\ FreqTotal = SuppliedTotal
    /\ FreqTotal > 2

(* C16: the frequency table is in non-increasing order of count, and       *)
(* aspects of equal count stand in the order in which the scan of the      *)
(* category rows first met them.                                           *)
C16_FrequencyOrderTiesFirstSeen ==
    CatReturned =>
        \A k, l \in DOMAIN Freq :
            k < l =>
                /\ Freq[k].count >= Freq[l].count
                /\ Freq[k].count = Freq[l].count
                      => Before(FirstListed(Freq[k].aspect),
                                FirstListed(Freq[l].aspect))

(* C17: for every empty category table, analyze_category_aspects returns  *)
(* a result with an empty aspect frequency and an empty                    *)
(* categories_no_aspects, and the upload endpoint that ran it answers 200. *)
C17_EmptyTableIsNotAnError ==
    (CatAnalyzed /\ cat_df # None /\ CatRows = <<>>) =>
        /\ cat_outcome = "returned"
        /\ cat_analysis # None
        /\ Freq = <<>>
        /\ NoAspects = <<>>
        /\ cat_pc = "uploaded" => cat_status = HttpOk

MatrixBuilt ==
    cat_pc = "matrix" \/ (cat_pc = "responded" /\ matrix_outcome # "none")

(* create_aspect_category_matrix returned a matrix for the table. *)
MatrixReturned ==
    /\ MatrixBuilt
    /\ matrix_outcome = "returned"
    /\ matrix # None

MatrixRows == IF matrix = None THEN <<>> ELSE matrix.rows

(* The columns of the matrix next to its 'aspect' label column. *)
MatrixCategoryColumns ==
    IF matrix = None THEN <<>>
    ELSE IF matrix.columns = <<>> THEN <<>> ELSE Tail(matrix.columns)

CatNames == {CatRows[i].name : i \in DOMAIN CatRows}

ListedAspects == UNION {Range(CatRows[i].aspects_parsed) : i \in DOMAIN CatRows}

(* The rows of the table that carry name c. *)
RowsNamed(c) == {i \in DOMAIN CatRows : CatRows[i].name = c}

(* C18: the matrix has exactly one row per aspect listed by any category,  *)
(* the rows stand in ascending alphabetical order of aspect, and for every *)
(* category whose name occurs once the cell of (aspect, name) is 1 when    *)
(* the category lists the aspect and 0 when it does not.                   *)
C18_MatrixRowsAndCells ==
    MatrixReturned =>
        /\ {MatrixRows[k].aspect : k \in DOMAIN MatrixRows} = ListedAspects
        /\ \A k, l \in DOMAIN MatrixRows :
              k < l => Rank(AspectOrder, MatrixRows[k].aspect)
                          < Rank(AspectOrder, MatrixRows[l].aspect)
        /\ \A k \in DOMAIN MatrixRows :
              \A i \in DOMAIN CatRows :
                  RowsNamed(CatRows[i].name) = {i} =>
                      MatrixRows[k].cells[CatRows[i].name] =
                          (IF MatrixRows[k].aspect \in Range(CatRows[i].aspects_parsed)
                           THEN 1 ELSE 0)

(* A matrix of two rows was built whose second aspect was listed before    *)
(* its first, and one category holds a 1 and a 0.                          *)
C18_Witness ==
    /\ MatrixReturned
    /\ Len(MatrixRows) = 2
    /\ Before(FirstListed(MatrixRows[2].aspect), FirstListed(MatrixRows[1].aspect))
    /\ \E i \in DOMAIN CatRows :
          /\ RowsNamed(CatRows[i].name) = {i}
          /\ MatrixRows[1].cells[CatRows[i].name] = 1
          /\ MatrixRows[2].cells[CatRows[i].name] = 0

C20_LastRowOfANameWins ==
    MatrixReturned =>
        \A i, j \in DOMAIN CatRows :
            (/\ i < j
             /\ CatRows[i].name = CatRows[j].name
             /\ \A l \in RowsNamed(CatRows[j].name) : l <= j) =>
                /\ ListedAspects # {} =>
                      Occurrences(MatrixCategoryColumns, CatRows[j].name) = 1
                /\ \A k \in DOMAIN MatrixRows :
                      MatrixRows[k].cells[CatRows[j].name] = 1
                          <=> MatrixRows[k].aspect
                                 \in Range(CatRows[j].aspects_parsed)
                /\ Range(CatRows[i].aspects_parsed)
                      \subseteq {MatrixRows[k].aspect : k \in DOMAIN MatrixRows}

(* Two rows of one name were given, the earlier listing an aspect that the *)
(* later does not list; the aspect has a matrix row with cell 0.           *)
C20_Witness ==
    /\ MatrixReturned
    /\ \E i, j \in DOMAIN CatRows :
          /\ i < j
          /\ CatRows[i].name = CatRows[j].name
          /\ \E k \in DOMAIN MatrixRows :
                /\ MatrixRows[k].aspect \in Range(CatRows[i].aspects_parsed)
                /\ MatrixRows[k].aspect \notin Range(CatRows[j].aspects_parsed)
                /\ MatrixRows[k].cells[CatRows[j].name] = 0
          /\ \E k \in DOMAIN MatrixRows :
                MatrixRows[k].cells[CatRows[j].name] = 1

-----------------------------------------------------------------------------
(* Normalisation of a serialized aspects column                            *)
(* (upload_categories_csv, load_category_data)                             *)

(* An aspects cell as read_csv delivers it: a missing cell (NaN, not a     *)
(* string), a whitespace-only string, a JSON array such as ["screen"]      *)
(* (which is a Python list literal too), a Python-only list literal such   *)
(* as ['screen'], and a text that is neither, such as screen, wifi.  The   *)
(* value is the list the text denotes.                                     *)
RawValues ==
    {[form |-> "nan",       value |-> <<>>],
     [form |-> "blank",     value |-> <<>>],
     [form |-> "json",      value |-> <<>>],
     [form |-> "json",      value |-> <<"screen">>],
     [form |-> "literal",   value |-> <<"screen">>],
     [form |-> "malformed", value |-> <<>>]}

(* "... if isinstance(x, str) and x.strip() else []" *)
IsText(x) == x.form \notin {"nan", "blank"}

(* lambda x: json.loads(x) if isinstance(x, str) and x.strip() else [] *)
JsonLoads(x) ==
    IF ~IsText(x) THEN [ok |-> TRUE, value |-> <<>>]
    ELSE IF x.form = "json" THEN [ok |-> TRUE, value |-> x.value]
    ELSE [ok |-> FALSE, value |-> <<>>]

(* lambda x: ast.literal_eval(x) if isinstance(x, str) and x.strip() else [] *)
LiteralEval(x) ==
    IF ~IsText(x) THEN [ok |-> TRUE, value |-> <<>>]
    ELSE IF x.form \in {"json", "literal"} THEN [ok |-> TRUE, value |-> x.value]
    ELSE [ok |-> FALSE, value |-> <<>>]

(* df['aspects'].apply(json.loads ...): raises when any cell does. *)
ApplyJsonLoads(column) ==
    IF \E i \in DOMAIN column : ~JsonLoads(column[i]).ok
    THEN [raised |-> "ValueError", column |-> <<>>]
    ELSE [raised |-> "no",
          column |-> [i \in DOMAIN column |-> JsonLoads(column[i]).value]]

(* df['aspects'].apply(ast.literal_eval ...): raises when any cell does. *)
ApplyLiteralEval(column) ==
    IF \E i \in DOMAIN column : ~LiteralEval(column[i]).ok
    THEN [raised |-> "ValueError", column |-> <<>>]
    ELSE [raised |-> "no",
          column |-> [i \in DOMAIN column |-> LiteralEval(column[i]).value]]

(* "try: json.loads on the column; except: ast.literal_eval on the        *)
(* column": the second stage is not guarded.                              *)
ParseAspectsColumn(column) ==
    IF ApplyJsonLoads(column).raised = "no"
    THEN ApplyJsonLoads(column)
    ELSE ApplyLiteralEval(column)

InitParse ==
    /\ Quiet("parse")
    /\ raw_aspects \in SeqsUpTo(RawValues, MaxCells)
    /\ parse_pc = "start"
    /\ parse_raised = "no"
    /\ aspects_parsed = None
    /\ parse_status = 0

(* POST /api/upload/review_categories/csv, for an authenticated request    *)
(* with a readable .csv file that has an aspects and an aspectsCount       *)
(* column, from "if 'aspects' in df.columns" on: the column is parsed, the *)
(* analysis run and 200 returned; any exception is answered 500 by the     *)
(* handler's except clause.                                                *)
UploadCategoriesCsv ==
    /\ parse_pc = "start"
    /\ LET r == ParseAspectsColumn(raw_aspects)
       IN  /\ parse_raised' = r.raised
           /\ aspects_parsed' = (IF r.raised = "no" THEN [values |-> r.column]
                                 ELSE None)
           /\ parse_status' = (IF r.raised = "no" THEN HttpOk
                               ELSE HttpServerError)
    /\ parse_pc' = "uploaded"
    /\ UNCHANGED raw_aspects
    /\ UNCHANGED notParseVars

(* load_category_data: the column is parsed with ast.literal_eval only;    *)
(* any exception is reported and None returned instead of the table.       *)
LoadCategoryData ==
    /\ parse_pc = "start"
    /\ LET r == ApplyLiteralEval(raw_aspects)
       IN  /\ parse_raised' = r.raised
           /\ aspects_parsed' = (IF r.raised = "no" THEN [values |-> r.column]
                                 ELSE None)
    /\ parse_pc' = "loaded"
    /\ UNCHANGED <<raw_aspects, parse_status>>
    /\ UNCHANGED notParseVars

NextParse ==
    \/ UploadCategoriesCsv
    \/ LoadCategoryData

SpecParse == InitParse /\ [][NextParse]_vars

(* The list a cell denotes under the three-stage fallback: the JSON parse, *)
(* else the literal parse, else the empty list.                            *)
ThreeStage(x) ==
    IF x.form \in {"json", "literal"} THEN x.value ELSE <<>>

(* C21: every aspects column is normalised without an error reaching the   *)
(* caller, each cell becoming the list of its JSON parse, else of its      *)
(* literal parse, else the empty list; the upload that normalised it       *)
(* answers 200.                                                            *)
C21_MalformedValueBecomesEmptyList ==
    parse_pc \in {"uploaded", "loaded"} =>
        /\ parse_raised = "no"
        /\ aspects_parsed # None
        /\ aspects_parsed =
              [values |-> [i \in DOMAIN raw_aspects |-> ThreeStage(raw_aspects[i])]]
        /\ parse_pc = "uploaded" => parse_status = HttpOk

-----------------------------------------------------------------------------
(* Sequences of calls to the aggregators in one process                    *)

(* The tables the calls are made with. *)
SampleReviewTables ==
    {None,
     [columns |-> RequiredColumns,
      rows    |-> <<[category |-> "Hotel", aspects_list |-> <<"screen", "battery">>]>>],
     [columns |-> RequiredColumns,
      rows    |-> <<[category |-> "Hotel", aspects_list |-> <<"wifi">>],
                    [category |-> "Electronics", aspects_list |-> <<"screen">>]>>]}

SampleCategoryTables ==
    {None,
     [columns |-> CategoryColumns,
      rows    |-> <<[name |-> "Hotel", aspectsCount |-> 2,
                     aspects_parsed |-> <<"screen", "battery">>]>>],
     [columns |-> CategoryColumns,
      rows    |-> <<[name |-> "Electronics", aspectsCount |-> 1,
                     aspects_parsed |-> <<"battery">>],
                    [name |-> "Hotel", aspectsCount |-> 0,
                     aspects_parsed |-> <<"screen", "screen">>]>>]}

CallInputs ==
    [fn : {"analyze_aspects"}, table : SampleReviewTables]
    \cup [fn : {"analyze_category_aspects", "create_aspect_category_matrix"},
          table : SampleCategoryTables]

(* The sort of one build is a function of its input: it keeps rows of      *)
(* equal count in their order, or (a build whose sort is not stable)       *)
(* swaps them.                                                             *)
SortKinds == {"stable", "unstable"}

SortByKind(totals, kind) ==
    IF kind = "stable" THEN StableOutcome(totals)
    ELSE CHOOSE s \in SortOutcomes(totals) :
            \A i, j \in DOMAIN s :
                (i < j /\ s[i].count = s[j].count)
                    => \E k, l \in DOMAIN totals :
                          k > l /\ totals[k] = s[i] /\ totals[l] = s[j]

(* Faulty variant: a call answers from the previous call of the same       *)
(* function (a memo kept between calls) whatever its table.                *)
CallResultMemoized(fn, table, kind, history) ==
    IF \E i \in DOMAIN history : history[i].fn = fn
    THEN history[CHOOSE i \in DOMAIN history :
                    /\ history[i].fn = fn
                    /\ \A j \in DOMAIN history : history[j].fn = fn => j <= i
                ].result
    ELSE IF fn = "analyze_aspects" THEN AnalyzeAspectsResult(table)
    ELSE IF fn = "create_aspect_category_matrix"
    THEN CreateAspectCategoryMatrixResult(table)
    ELSE LET r == AnalyzeCategoryAspectsResult(table)
         IN  IF r.analysis = None THEN r
             ELSE [raised   |-> r.raised,
                   analysis |-> r.analysis,
                   aspect_freq |-> SortByKind(r.analysis.aspect_counts, kind)]

(* The result of a call: the functions read their argument only; they use  *)
(* no global and no attribute that outlives the call, so the calls made    *)
(* before (history) play no part.                                          *)
CallResult(fn, table, kind, history) ==
    IF fn = "analyze_aspects" THEN AnalyzeAspectsResult(table)
    ELSE IF fn = "create_aspect_category_matrix"
    THEN CreateAspectCategoryMatrixResult(table)
    ELSE LET r == AnalyzeCategoryAspectsResult(table)
         IN  IF r.analysis = None THEN r
             ELSE [raised   |-> r.raised,
                   analysis |-> r.analysis,
                   aspect_freq |-> SortByKind(r.analysis.aspect_counts, kind)]

(* The caller's table after the call: the functions assign to no column    *)
(* and no cell of df (selections such as df[df['category'] == category]    *)
(* are new frames).                                                        *)
TableAfter(fn, table) == table

InitCalls ==
    /\ Quiet("calls")
    /\ calls = <<>>
    /\ sort_kind \in SortKinds

Call ==
    /\ Len(calls) < MaxCalls
    /\ \E c \in CallInputs :
          calls' = Append(calls,
                          [fn          |-> c.fn,
                           table       |-> c.table,
                           result      |-> CallResult(c.fn, c.table, sort_kind, calls),
                           table_after |-> TableAfter(c.fn, c.table)])
    /\ UNCHANGED sort_kind
    /\ UNCHANGED notCallVars

NextCalls == Call

SpecCalls == InitCalls /\ [][NextCalls]_vars

-----------------------------------------------------------------------------
(* process_csv: the aspects_list column                                    *)

(* Texts are sequences of characters; the alphabet has a letter, the       *)
(* blank and the comma.                                                    *)
Chars == {"a", " ", ","}

Texts == UNION {[1..k -> Chars] : k \in 1..MaxChars}

(* An aspects cell as read_csv delivers it: missing (NaN) for an empty     *)
(* field, else the text of the field.                                      *)
Cells ==
    {[missing |-> TRUE, text |-> <<>>]}
    \cup {[missing |-> FALSE, text |-> t] : t \in Texts}

(* The aspects columns of files with no, one and two reviews. *)
CsvColumns == UNION {[1..k -> Cells] : k \in {0, 1, 2}}

(* str.split(','): the pieces between the commas, empty pieces included. *)
RECURSIVE SplitComma(_)
SplitComma(s) ==
    IF \A i \in DOMAIN s : s[i] # ","
    THEN <<s>>
    ELSE LET i == CHOOSE c \in DOMAIN s :
                      s[c] = "," /\ \A b \in 1..(c - 1) : s[b] # ","
         IN  <<SubSeq(s, 1, i - 1)>> \o SplitComma(SubSeq(s, i + 1, Len(s)))

(* Faulty variant: no strip, as in df['aspects'].str.split(',') alone. *)
StripNothing(s) == s

(* str.strip(): the text without its leading and trailing blanks. *)
Strip(s) ==
    LET inked == {i \in DOMAIN s : s[i] # " "}
    IN  IF inked = {} THEN <<>>
        ELSE SubSeq(s, CHOOSE i \in inked : \A j \in inked : i <= j,
                       CHOOSE i \in inked : \A j \in inked : j <= i)

(* df['aspects'].dtype == 'object': the column holds a text, or no cell    *)
(* at all; a column of missing cells only is read as float64.              *)
IsObjectColumn(column) ==
    column = <<>> \/ \E i \in DOMAIN column : ~column[i].missing

(* "df['aspects'].str.split(',').apply(lambda x: [item.strip() for item    *)
(* in x] if isinstance(x, list) else [])"                                  *)
AspectsList(column) ==
    [i \in DOMAIN column |->
        IF column[i].missing THEN <<>>
        ELSE LET x == SplitComma(column[i].text)
             IN  [k \in DOMAIN x |-> Strip(x[k])]]

(* What process_csv returns for a readable file with the four required     *)
(* columns: the table with its aspects_list, or None when the aspects      *)
(* column is not of dtype object.                                          *)
ProcessCsvResult(column) ==
    IF IsObjectColumn(column)
    THEN [aspects_list |-> AspectsList(column)]
    ELSE None

InitCsv ==
    /\ Quiet("csv")
    /\ csv_aspects \in CsvColumns
    /\ csv_pc = "start"
    /\ csv_result = None

ProcessCsv ==
    /\ csv_pc = "start"
    /\ csv_result' = ProcessCsvResult(csv_aspects)
    /\ csv_pc' = "processed"
    /\ UNCHANGED csv_aspects
    /\ UNCHANGED notCsvVars

NextCsv == ProcessCsv

SpecCsv == InitCsv /\ [][NextCsv]_vars

(* The positions of the commas of a text, and the piece between the        *)
(* (k-1)-th and the k-th comma.                                            *)
CommasOf(s) == {i \in DOMAIN s : s[i] = ","}

PieceOf(s, k) ==
    LET from == IF k = 1 THEN 1 ELSE Pick(CommasOf(s), k - 1) + 1
        to   == IF k = Cardinality(CommasOf(s)) + 1 THEN Len(s)
                ELSE Pick(CommasOf(s), k) - 1
    IN  SubSeq(s, from, to)

(* t is s without its leading and trailing blanks. *)
IsTrimOf(t, s) ==
    /\ \A i \in DOMAIN t : i \in {1, Len(t)} => t[i] # " "
    /\ \E lead, trail \in 0..Len(s) :
          /\ s = [i \in 1..lead |-> " "] \o t \o [i \in 1..trail |-> " "]

(* The list of row i is the split and trimmed text of its cell: one token  *)
(* per piece between commas, empty and blank pieces kept as empty tokens;  *)
(* the empty list for a missing cell.                                      *)
RowIsSplitAndTrimmed(i) ==
    LET cell == csv_aspects[i]
        list == csv_result.aspects_list[i]
    IN  IF cell.missing THEN list = <<>>
        ELSE /\ Len(list) = Cardinality(CommasOf(cell.text)) + 1
             /\ \A k \in DOMAIN list : IsTrimOf(list[k], PieceOf(cell.text, k))

(* Every file whose aspects column holds a text (or no row) is accepted    *)
(* and every row of it is split and trimmed.                               *)
SplitAndTrimOfTextColumns ==
    (csv_pc = "processed" /\ IsObjectColumn(csv_aspects)) =>
        /\ csv_result # None
        /\ DOMAIN csv_result.aspects_list = DOMAIN csv_aspects
        /\ \A i \in DOMAIN csv_aspects : RowIsSplitAndTrimmed(i)

(* C23: for every file with the required columns, process_csv returns the  *)
(* table with an aspects_list for every row: the split and trimmed text of *)
(* the row's aspects, and the empty list for a missing aspects value.      *)
C23_SplitTrimEveryRow ==
    csv_pc = "processed" =>
        /\ csv_result # None
        /\ DOMAIN csv_result.aspects_list = DOMAIN csv_aspects
        /\ \A i \in DOMAIN csv_aspects : RowIsSplitAndTrimmed(i)

-----------------------------------------------------------------------------
(* The API server (api.py): the key check, the uploads directory and the   *)
(* five endpoints.  A request is handled in one step.                      *)

(* The X-API-Key header of a request: absent, present and empty, present   *)
(* and different from API_KEY, equal to API_KEY.                           *)
Keys == {"absent", "empty", "wrong", "valid"}

(* Faulty variant: any non-empty key passes. *)
KeyAcceptedIfPresent(key) == key \in {"wrong", "valid"}

(* "if not provided_key or provided_key != API_KEY: ... 403" *)
KeyAccepted(key) == key = "valid"

(* The file part of a multipart upload: none, one with an empty filename,  *)
(* one whose name does not end in .csv, a .csv that read_csv cannot parse, *)
(* a .csv without a required column, a .csv with the required columns.     *)
FileKinds ==
    {"no_file", "no_name", "not_csv", "unparsable", "missing_column", "ok"}

FileBytes == {"A", "B"}

Files == [kind : FileKinds, bytes : FileBytes]

(* The body of a JSON upload: not JSON, JSON but not an array, an array    *)
(* whose objects lack aspectsCount, an array of category objects.          *)
BodyKinds == {"not_json", "not_array", "missing_column", "ok"}

(* The status of POST /api/upload for a request with an accepted key. *)
UploadStatus(file) ==
    IF file.kind \in {"no_file", "no_name", "not_csv"} THEN HttpBadRequest
    ELSE IF file.kind = "unparsable" THEN HttpServerError
    ELSE IF file.kind = "missing_column" THEN HttpBadRequest
    ELSE HttpOk

(* Faulty variant: the file is written before its columns are checked. *)
UploadStoredBeforeColumnCheck(file) == file.kind \in {"missing_column", "ok"}

(* upload_data reaches "with open(file_path, 'wb')" only after every       *)
(* check passed.                                                           *)
UploadStored(file) == file.kind = "ok"

(* f"api_upload_{pd.Timestamp.now().strftime('%Y%m%d_%H%M%S')}.csv": the   *)
(* name is the second of the server's local clock; names of equal length   *)
(* sort as their seconds do.                                               *)
UploadName(t) == t

(* open(file_path, 'wb'); f.write(file_content): a file of that name is    *)
(* replaced.                                                               *)
WriteFile(dir, name, bytes) ==
    {f \in dir : f.name # name} \cup {[name |-> name, bytes |-> bytes]}

(* sorted(files)[-1] *)
LatestFile(dir) == CHOOSE f \in dir : \A g \in dir : g.name <= f.name

InitApi ==
    /\ Quiet("api")
    /\ now = 0
    /\ stepped_back = FALSE
    /\ uploads = {}
    /\ upload_writes = 0
    /\ category_writes = 0
    /\ analyses = 0
    /\ accepted = <<>>
    /\ requests = 0
    /\ resp = None
    /\ catalog_ok \in BOOLEAN

(* The local clock of the server moves on by a second. *)
Tick ==
    /\ now < MaxTime
    /\ now' = now + 1
    /\ UNCHANGED <<stepped_back, uploads, upload_writes, category_writes,
                   analyses, accepted, requests, resp, catalog_ok>>
    /\ UNCHANGED notApiVars

(* pd.Timestamp.now() is naive local time: it is set back when daylight    *)
(* saving time ends or the clock is corrected.                             *)
StepBack ==
    /\ now > 0
    /\ \E t \in 0..(now - 1) : now' = t
    /\ stepped_back' = TRUE
    /\ UNCHANGED <<uploads, upload_writes, category_writes, analyses,
                   accepted, requests, resp, catalog_ok>>
    /\ UNCHANGED notApiVars

Rejected(endpoint, key) ==
    [endpoint |-> endpoint, key |-> key, status |-> HttpForbidden,
     kind |-> "none", bytes |-> "none", analysed |-> "none"]

(* POST /api/upload *)
PostUpload ==
    /\ requests < MaxRequests
    /\ requests' = requests + 1
    /\ \E key \in Keys, file \in Files :
          IF ~KeyAccepted(key)
          THEN /\ resp' = Rejected("upload", key)
               /\ UNCHANGED <<uploads, upload_writes, accepted>>
          ELSE /\ resp' = [endpoint |-> "upload", key |-> key,
                           status |-> UploadStatus(file), kind |-> file.kind,
                           bytes |-> file.bytes, analysed |-> "none"]
               /\ IF UploadStored(file)
                  THEN /\ uploads' = WriteFile(uploads, UploadName(now), file.bytes)
                       /\ upload_writes' = upload_writes + 1
                  ELSE UNCHANGED <<uploads, upload_writes>>
               /\ accepted' = (IF UploadStatus(file) = HttpOk
                               THEN Append(accepted, [name  |-> UploadName(now),
                                                      bytes |-> file.bytes])
                               ELSE accepted)
    /\ UNCHANGED <<now, stepped_back, category_writes, analyses, catalog_ok>>
    /\ UNCHANGED notApiVars

(* POST /api/upload/review_categories/csv: the file is saved to            *)
(* example_data once read_csv has parsed it, then analysed.                *)
PostCategoriesCsv ==
    /\ requests < MaxRequests
    /\ requests' = requests + 1
    /\ \E key \in Keys, file \in Files :
          IF ~KeyAccepted(key)
          THEN /\ resp' = Rejected("categories_csv", key)
               /\ UNCHANGED <<category_writes, analyses>>
          ELSE /\ resp' = [endpoint |-> "categories_csv", key |-> key,
                           status |-> IF file.kind \in {"no_file", "no_name", "not_csv"}
                                      THEN HttpBadRequest
                                      ELSE IF file.kind = "ok" THEN HttpOk
                                      ELSE HttpServerError,
                           kind |-> file.kind, bytes |-> file.bytes,
                           analysed |-> "none"]
               /\ IF file.kind \in {"missing_column", "ok"}
                  THEN /\ category_writes' = category_writes + 1
                       /\ analyses' = analyses + 1
                  ELSE UNCHANGED <<category_writes, analyses>>
    /\ UNCHANGED <<now, stepped_back, uploads, upload_writes, accepted,
                   catalog_ok>>
    /\ UNCHANGED notApiVars

(* POST /api/upload/review_categories/json: the array is saved to          *)
(* example_data, then analysed.                                            *)
PostCategoriesJson ==
    /\ requests < MaxRequests
    /\ requests' = requests + 1
    /\ \E key \in Keys, body \in BodyKinds :
          IF ~KeyAccepted(key)
          THEN /\ resp' = Rejected("categories_json", key)
               /\ UNCHANGED <<category_writes, analyses>>
          ELSE /\ resp' = [endpoint |-> "categories_json", key |-> key,
                           status |-> IF body \in {"not_json", "not_array"}
                                      THEN HttpBadRequest
                                      ELSE IF body = "ok" THEN HttpOk
                                      ELSE HttpServerError,
                           kind |-> body, bytes |-> "none", analysed |-> "none"]
               /\ IF body \in {"missing_column", "ok"}
                  THEN /\ category_writes' = category_writes + 1
                       /\ analyses' = analyses + 1
                  ELSE UNCHANGED <<category_writes, analyses>>
    /\ UNCHANGED <<now, stepped_back, uploads, upload_writes, accepted,
                   catalog_ok>>
    /\ UNCHANGED notApiVars

(* GET /api/analytics/categories: the catalog file is loaded and, when it  *)
(* has rows, analysed.                                                     *)
GetAnalyticsCategories ==
    /\ requests < MaxRequests
    /\ requests' = requests + 1
    /\ \E key \in Keys :
          IF ~KeyAccepted(key)
          THEN /\ resp' = Rejected("analytics_categories", key)
               /\ UNCHANGED analyses
          ELSE /\ resp' = [endpoint |-> "analytics_categories", key |-> key,
                           status |-> IF catalog_ok THEN HttpOk ELSE HttpNotFound,
                           kind |-> "none", bytes |-> "none", analysed |-> "none"]
               /\ analyses' = (IF catalog_ok THEN analyses + 1 ELSE analyses)
    /\ UNCHANGED <<now, stepped_back, uploads, upload_writes, category_writes,
                   accepted, catalog_ok>>
    /\ UNCHANGED notApiVars

(* GET /api/analytics/reviews: 404 without a stored .csv file, else the    *)
(* last of the sorted file names is processed and analysed.                *)
GetAnalyticsReviews ==
    /\ requests < MaxRequests
    /\ requests' = requests + 1
    /\ \E key \in Keys :
          IF ~KeyAccepted(key)
          THEN /\ resp' = Rejected("analytics_reviews", key)
               /\ UNCHANGED analyses
          ELSE IF uploads = {}
          THEN /\ resp' = [endpoint |-> "analytics_reviews", key |-> key,
                           status |-> HttpNotFound, kind |-> "none",
                           bytes |-> "none", analysed |-> "none"]
               /\ UNCHANGED analyses
          ELSE /\ resp' = [endpoint |-> "analytics_reviews", key |-> key,
                           status |-> HttpOk, kind |-> "none", bytes |-> "none",
                           analysed |-> LatestFile(uploads).bytes]
               /\ analyses' = analyses + 1
    /\ UNCHANGED <<now, stepped_back, uploads, upload_writes, category_writes,
                   accepted, catalog_ok>>
    /\ UNCHANGED notApiVars

NextApi ==
    \/ Tick
    \/ StepBack
    \/ PostUpload
    \/ PostCategoriesCsv
    \/ PostCategoriesJson
    \/ GetAnalyticsCategories
    \/ GetAnalyticsReviews

SpecApi == InitApi /\ [][NextApi]_vars

(* The last response answered the named endpoint. *)
Answered(endpoint) == resp # None /\ resp.endpoint = endpoint

(* The files the accepted uploads would occupy under names of their own. *)
AcceptedNames == {accepted[i].name : i \in 1..Len(accepted)}

(* C24: a request to any of the five endpoints whose X-API-Key header is   *)
(* absent, empty or different from API_KEY is answered 403, writes no file *)
(* into uploads or example_data and runs no analysis.                      *)
C24_BadKeyRejectedWithoutEffect ==
    [][(requests' # requests /\ resp'.key # "valid")
          => /\ resp'.status = HttpForbidden
             /\ UNCHANGED <<uploads, upload_writes, category_writes,
                            analyses, accepted>>]_vars

C24_Witness ==
    /\ resp # None
    /\ resp.key = "wrong"
    /\ resp.status = HttpForbidden
    /\ resp.endpoint = "upload"
    /\ uploads # {}
    /\ analyses > 0

(* With a clock that was never set back, GET /api/analytics/reviews        *)
(* analyses the bytes of the upload accepted last.                         *)
LatestAnalysedUnderForwardClock ==
    (Answered("analytics_reviews") /\ resp.status = HttpOk /\ ~stepped_back)
        => resp.analysed = accepted[Len(accepted)].bytes

(* C28: GET /api/analytics/reviews analyses the file of the most recent    *)
(* successful POST /api/upload, after any sequence of uploads.             *)
C28_LatestUploadAnalysed ==
    (Answered("analytics_reviews") /\ resp.status = HttpOk)
        => resp.analysed = accepted[Len(accepted)].bytes

(* C29: POST /api/upload writes a file exactly when it answers 200; any    *)
(* other answer leaves the stored files as they were; the file written     *)
(* holds the uploaded bytes.                                               *)
C29_StoredIffOk ==
    [][(requests' # requests /\ resp'.endpoint = "upload")
          => /\ (resp'.status = HttpOk) <=> (upload_writes' = upload_writes + 1)
             /\ resp'.status # HttpOk
                   => UNCHANGED <<uploads, upload_writes>>
             /\ resp'.status = HttpOk
                   => [name |-> UploadName(now), bytes |-> resp'.bytes]
                         \in uploads']_vars

C29_Witness ==
    /\ Answered("upload")
    /\ resp.status = HttpBadRequest
    /\ resp.kind = "missing_column"
    /\ Cardinality(uploads) = 2
    /\ upload_writes = 2

(* C30: every successful upload is stored under a name of its own, so the  *)
(* stored files are as many as the successful uploads.                     *)
C30_DistinctNamePerUpload ==
    /\ Cardinality(uploads) = Len(accepted)
    /\ Cardinality(AcceptedNames) = Len(accepted)

-----------------------------------------------------------------------------
(* Authentication of the Streamlit session (auth.py).  The clock counts    *)
(* hours and only advances.                                                *)

(* The keys a caller may pass: the expected key, another ASCII string, a   *)
(* string with a character outside ASCII.                                  *)
AuthKeys == {"expected", "other", "non_ascii"}

(* hmac.compare_digest(api_key, expected_key): TypeError for a str with    *)
(* non-ASCII characters.                                                   *)
VerifyApiKey(api_key) ==
    IF api_key = "non_ascii"
    THEN [raised |-> TRUE, value |-> FALSE]
    ELSE [raised |-> FALSE, value |-> api_key = "expected"]

(* st.session_state after the "not in" initialisation of check_authentication. *)
SessionOrFresh ==
    IF session = None THEN [authenticated |-> FALSE, auth_time |-> None]
    ELSE session

(* check_authentication: the session state it leaves and the value it      *)
(* returns at the given hour.                                              *)
CheckedSession(t) ==
    LET s == SessionOrFresh
    IN  IF s.auth_time # None /\ t > s.auth_time.at + SessionHours
        THEN [authenticated |-> FALSE, auth_time |-> None]
        ELSE s

InitAuth ==
    /\ Quiet("auth")
    /\ clock = 0
    /\ session = None
    /\ auth_op = "none"
    /\ auth_returned = FALSE
    /\ last_auth = None
    /\ logout_since = FALSE
    /\ any_raised = FALSE

(* Time passes. *)
Advance ==
    /\ \E hours \in {1, SessionHours} :
          /\ clock + hours <= MaxHours
          /\ clock' = clock + hours
    /\ auth_op' = "advance"
    /\ UNCHANGED <<session, auth_returned, last_auth, logout_since, any_raised>>
    /\ UNCHANGED notAuthVars

CheckAuthentication ==
    /\ session' = CheckedSession(clock)
    /\ auth_op' = "check"
    /\ auth_returned' = CheckedSession(clock).authenticated
    /\ UNCHANGED <<clock, last_auth, logout_since, any_raised>>
    /\ UNCHANGED notAuthVars

Authenticate ==
    /\ \E api_key \in AuthKeys :
          LET v == VerifyApiKey(api_key)
          IN  /\ session' = (IF v.raised THEN session
                             ELSE IF v.value
                             THEN [authenticated |-> TRUE,
                                   auth_time |-> [at |-> clock]]
                             ELSE [authenticated |-> FALSE, auth_time |-> None])
              /\ auth_returned' = (~v.raised /\ v.value)
              /\ last_auth' = [outcome |-> IF v.raised THEN "raised"
                                           ELSE IF v.value THEN "ok"
                                           ELSE "failed",
                               at |-> clock]
              /\ any_raised' = (any_raised \/ v.raised)
    /\ auth_op' = "authenticate"
    /\ logout_since' = FALSE
    /\ UNCHANGED clock
    /\ UNCHANGED notAuthVars

Logout ==
    /\ session' = [authenticated |-> FALSE, auth_time |-> None]
    /\ auth_op' = "logout"
    /\ logout_since' = TRUE
    /\ UNCHANGED <<clock, auth_returned, last_auth, any_raised>>
    /\ UNCHANGED notAuthVars

(* A call of a function wrapped by auth_required; auth_returned tells      *)
(* whether the function ran.                                               *)
WrappedCall ==
    /\ session' = CheckedSession(clock)
    /\ auth_op' = "call"
    /\ auth_returned' = CheckedSession(clock).authenticated
    /\ UNCHANGED <<clock, last_auth, logout_since, any_raised>>
    /\ UNCHANGED notAuthVars

NextAuth ==
    \/ Advance
    \/ CheckAuthentication
    \/ Authenticate
    \/ Logout
    \/ WrappedCall

SpecAuth == InitAuth /\ [][NextAuth]_vars

(* The latest authenticate call succeeded, nothing logged out since, and   *)
(* it is at most 24 hours old.                                             *)
LoggedIn ==
    /\ last_auth # None
    /\ last_auth.outcome = "ok"
    /\ ~logout_since
    /\ clock <= last_auth.at + SessionHours

(* check_authentication has just returned True, or a wrapped function has *)
(* just run.                                                               *)
Granted == auth_op \in {"check", "call"} /\ auth_returned

(* As long as no authenticate call raised, access is granted only to a     *)
(* session that is logged in.                                              *)
GrantedOnlyLoggedInUnlessRaised == (Granted /\ ~any_raised) => LoggedIn

(* C25: check_authentication returns True, and a function wrapped by       *)
(* auth_required runs, only if the latest authenticate call succeeded, no  *)
(* logout followed it and at most 24 hours have passed since it.           *)
C25_GrantedOnlyLoggedIn == Granted => LoggedIn

-----------------------------------------------------------------------------
(* InternalAPIClient.get_review_categories_paginated (internal_api.py):    *)
(* the loop over the pages, one iteration per step, against a server that  *)
(* either holds a fixed list of categories and pages it consistently, or   *)
(* answers anything.                                                       *)

(* The category with the given id as the server sends it. *)
ServerItem(i) ==
    [id |-> i, aspects |-> IF i % 2 = 1 THEN <<[name |-> "x"]>> ELSE <<>>]

(* The "total" field of a response: absent, an integer, a text that is no  *)
(* number, null, or Infinity.                                              *)
TotalInts == {0, PageSize, MaxPagesArg * PageSize + 1}

TotalFields ==
    {[form |-> f, value |-> 0] : f \in {"missing", "text", "null", "infinity"}}
        \cup {[form |-> "int", value |-> n] : n \in TotalInts}

(* The "data" field of a response: a list, null, or a number. *)
DataFields ==
    {[form |-> "list", items |-> <<>>],
     [form |-> "list", items |-> <<ServerItem(1)>>],
     [form |-> "list", items |-> [i \in 1..PageSize |-> ServerItem(i)]],
     [form |-> "null", items |-> <<>>],
     [form |-> "number", items |-> <<>>]}

(* What get_review_categories may return: an error dict, a JSON value that *)
(* is no object, an object without 'data', an object with 'data'.          *)
ArbitraryResponses ==
    {[kind |-> k, data |-> [form |-> "null", items |-> <<>>],
      total |-> [form |-> "missing", value |-> 0]]
        : k \in {"error", "not_dict", "no_data"}}
        \cup [kind : {"page"}, data : DataFields, total : TotalFields]

(* The page a server holding the categories 1..total returns for           *)
(* page=p, size=PageSize.                                                  *)
ConsistentPage(total, p) ==
    LET first == p * PageSize + 1
        last  == IF (p + 1) * PageSize < total THEN (p + 1) * PageSize ELSE total
    IN  [kind  |-> "page",
         data  |-> [form  |-> "list",
                    items |-> IF last < first THEN <<>>
                              ELSE [k \in 1..(last - first + 1)
                                       |-> ServerItem(first + k - 1)]],
         total |-> [form |-> "int", value |-> total]]

(* The totals of the consistent server: around each page boundary. *)
ServerTotals ==
    {k * PageSize + d : k \in 0..MaxPagesArg, d \in {0, 1}}
        \cup {PageSize - 1}

(* "if not data" *)
Falsy(data) == data.form = "null" \/ (data.form = "list" /\ data.items = <<>>)

(* int(response.get("total", 0)): the value, or the exception raised. *)
IntOf(total) ==
    IF total.form = "missing" THEN [raised |-> "no", value |-> 0]
    ELSE IF total.form = "int" THEN [raised |-> "no", value |-> total.value]
    ELSE IF total.form = "text" THEN [raised |-> "ValueError", value |-> 0]
    ELSE IF total.form = "null" THEN [raised |-> "TypeError", value |-> 0]
    ELSE [raised |-> "OverflowError", value |-> 0]

(* Faulty variant: one page more is requested at an exact page boundary. *)
ReachesTotalStrict(p, total_count) == (p + 1) * PageSize > total_count

(* "items_so_far = (page + 1) * size; if items_so_far >= total_count" *)
ReachesTotal(p, total_count) == (p + 1) * PageSize >= total_count

(* The loop over all_results that builds processed_results. *)
ProcessedItem(item) ==
    IF item.aspects # <<>>
    THEN [id |-> item.id, aspectsCount |-> Len(item.aspects),
          aspects |-> [k \in 1..Len(item.aspects) |-> item.aspects[k].name]]
    ELSE [id |-> item.id, aspectsCount |-> 0]

ProcessedResults(items) == [k \in 1..Len(items) |-> ProcessedItem(items[k])]

InitPages ==
    /\ Quiet("pages")
    /\ max_pages \in 0..MaxPagesArg
    /\ server \in {[mode |-> "arbitrary", total |-> 0]}
                     \cup [mode : {"consistent"}, total : ServerTotals]
    /\ page = 0
    /\ more_pages = TRUE
    /\ page_pc = "loop"
    /\ all_results = <<>>
    /\ requested = <<>>
    /\ responses = <<>>
    /\ pages_output = None

(* What one iteration of the while loop does with the response. *)
Iterate(response) ==
    /\ requested' = Append(requested, page)
    /\ responses' = Append(responses, response)
    /\ IF response.kind # "page"
       THEN (* "return response" or the 'data' field is missing *)
            /\ page_pc' = "done"
            /\ pages_output' = [kind |-> "error", items |-> <<>>]
            /\ UNCHANGED <<page, more_pages, all_results>>
       ELSE IF Falsy(response.data)
       THEN /\ more_pages' = FALSE
            /\ UNCHANGED <<page, page_pc, all_results, pages_output>>
       ELSE IF response.data.form = "number"
       THEN (* all_results.extend(data) raises TypeError *)
            /\ page_pc' = "raised"
            /\ UNCHANGED <<page, more_pages, all_results, pages_output>>
       ELSE LET n == IntOf(response.total)
            IN  /\ all_results' = all_results \o response.data.items
                /\ IF n.raised = "OverflowError"
                   THEN /\ page_pc' = "raised"
                        /\ UNCHANGED <<page, more_pages, pages_output>>
                   ELSE IF n.raised # "no" \/ ReachesTotal(page, n.value)
                   THEN /\ more_pages' = FALSE
                        /\ UNCHANGED <<page, page_pc, pages_output>>
                   ELSE /\ page' = page + 1
                        /\ UNCHANGED <<more_pages, page_pc, pages_output>>

(* One iteration of "while page < max_pages and more_pages". *)
RequestPage ==
    /\ page_pc = "loop"
    /\ page < max_pages /\ more_pages
    /\ IF server.mode = "consistent"
       THEN Iterate(ConsistentPage(server.total, page))
       ELSE \E response \in ArbitraryResponses : Iterate(response)
    /\ UNCHANGED <<max_pages, server>>
    /\ UNCHANGED notPagesVars

(* The loop has ended: the results are processed and returned. *)
ReturnProcessed ==
    /\ page_pc = "loop"
    /\ ~(page < max_pages /\ more_pages)
    /\ page_pc' = "done"
    /\ pages_output' = [kind |-> "list", items |-> ProcessedResults(all_results)]
    /\ UNCHANGED <<max_pages, server, page, more_pages, all_results,
                   requested, responses>>
    /\ UNCHANGED notPagesVars

NextPages ==
    \/ RequestPage
    \/ ReturnProcessed

SpecPages == InitPages /\ [][NextPages]_vars /\ WF_vars(NextPages)

(* The response to the request of page p is one at which the loop is to    *)
(* stop: an error, no 'data' field, empty or unusable data, a total that   *)
(* is no integer, or a total reached by (p + 1) * size.                    *)
StopPage(response, p) ==
    \/ response.kind \in {"error", "not_dict", "no_data"}
    \/ response.data.form \in {"null", "number"}
    \/ response.data.items = <<>>
    \/ response.total.form \in {"text", "null", "infinity"}
    \/ response.total.form = "missing"
    \/ response.total.form = "int" /\ (p + 1) * PageSize >= response.total.value

(* The call has returned or raised. *)
PagesEnded == page_pc \in {"done", "raised"}

(* The processed entries of the categories 1..n in page order. *)
EntriesUpTo(n) == [k \in 1..n |-> ProcessedItem(ServerItem(k))]

Smaller(a, b) == IF a < b THEN a ELSE b

RequestsInOrderUntilStop ==
    /\ Len(requested) <= max_pages
    /\ \A i \in 1..Len(requested) : requested[i] = i - 1
    /\ \A i \in 1..(Len(requested) - 1) : ~StopPage(responses[i], i - 1)
    /\ PagesEnded
          => \/ Len(requested) = max_pages
             \/ /\ requested # <<>>
                /\ StopPage(responses[Len(responses)], Len(requested) - 1)

(* C26: the call ends after at most max_pages requests, for the pages 0,   *)
(* 1, 2, ... in order, and no request follows a page that is an error,     *)
(* lacks 'data', has empty data, has a non-integer total or reaches        *)
(* (page + 1) * size >= total.                                             *)
C26_BoundedConsecutiveRequests ==
    /\ []RequestsInOrderUntilStop
    /\ <>PagesEnded

C26_Witness ==
    /\ page_pc = "done"
    /\ server.mode = "arbitrary"
    /\ max_pages = DefaultMaxPages
    /\ requested = <<0, 1, 2>>
    /\ responses[3].total.form = "text"
    /\ pages_output.kind = "list"
    /\ Len(pages_output.items) = 2 * PageSize + 1

(* Against a consistent server the call returns the first                  *)
(* max_pages * size categories, processed, in page order.                  *)
FirstPagesReturned ==
    (page_pc = "done" /\ server.mode = "consistent")
        => pages_output =
              [kind  |-> "list",
               items |-> EntriesUpTo(Smaller(server.total, max_pages * PageSize))]

(* C27: against a server that holds total categories and pages them        *)
(* consistently, the returned list has exactly one processed entry for     *)
(* each of the total categories, in page order.                            *)
C27_AllCategoriesReturned ==
    (page_pc = "done" /\ server.mode = "consistent")
        => pages_output = [kind |-> "list", items |-> EntriesUpTo(server.total)]

=============================================================================
